---- MODULE Spec2Model ----
(***************************************************************************)
(* A model of dibs: the best-fit free-list allocator (src/src/allocator.rs) *)
(* the byte arena built on it (src/src/memory.rs) and the open-addressed   *)
(* hash table stored inside the arena (src/src/hashtable.rs).              *)
(*                                                                         *)
(* Vec indices are kept 0-based as in the Rust source; At/VecInsert/...    *)
(* translate them to TLA+ sequences.  A panic (failed assert!, index out   *)
(* of bounds, explicit panic!) is an outcome with ok = FALSE; the program  *)
(* then stops (status = "panic").                                          *)
(***************************************************************************)
EXTENDS Integers, Sequences, FiniteSets, TLC

VARIABLES
    allocator,   \* Allocator { allocations, free_by_addr, free_by_size, total_size,
                 \* live_mem_refs }
    status,      \* "ok" while the program runs, "panic" after a fatal error,
                 \* "hang" when a loop that cannot terminate was entered
    last,        \* the last call made and what it returned (observation only)
    storage,     \* MemStore: the bytes of the arena, address |-> 0..255
    table,       \* HashTable { data }, with alive = FALSE before with_capacity
                 \* and after delete_table
    setup,       \* the build (debug_assertions on or off), the size of the
                 \* arena, the values hash_for takes on the keys in use and
                 \* the arguments the program draws its calls from
    reference,   \* the map a caller keeps next to the table (stress test)
    calls        \* how many calls that write to the arena were made

vars == <<allocator, status, last, storage, table, setup, reference, calls>>

(***************************************************************************)
(* Bounds of the model                                                     *)
(***************************************************************************)
\* largest arena given to Allocator::new in the allocator specification
MaxTotalSize == 5
\* largest size passed to Allocator::alloc in the allocator specification
MaxAllocSize == 3
\* slice::binary_search_by_key may return any of several matching indices;
\* pick selects which (0 = lowest, ... clipped to the highest)
MaxPick == 1

Picks == 0..MaxPick

Min(a, b) == IF a < b THEN a ELSE b

(***************************************************************************)
(* Vec<T> with 0-based indices                                             *)
(***************************************************************************)
At(s, i) == s[i + 1]

VecRemove(s, i) == SubSeq(s, 1, i) \o SubSeq(s, i + 2, Len(s))

VecInsert(s, i, x) == SubSeq(s, 1, i) \o <<x>> \o SubSeq(s, i + 1, Len(s))

VecSet(s, i, x) == [s EXCEPT ![i + 1] = x]

VecPush(s, x) == Append(s, x)

Indices(s) == 0..(Len(s) - 1)

(***************************************************************************)
(* Allocation                                                              *)
(***************************************************************************)
Allocation(addr, size) == [addr |-> addr, size |-> size]

start(a) == a.addr

end(a) == a.addr + a.size

NoAllocation == Allocation(0, 0)

(***************************************************************************)
(* slice::binary_search_by_key on a slice sorted by the key.  Found: the   *)
(* index of a matching element (any one of them, chosen by pick); not      *)
(* found: the index where the key could be inserted keeping the order.     *)
(***************************************************************************)
binary_search_by_size(s, size, pick) ==
    LET hits == {i \in Indices(s) : At(s, i).size = size}
        below == Cardinality({i \in Indices(s) : At(s, i).size < size})
    IN  IF hits = {}
        THEN [found |-> FALSE, index |-> below]
        ELSE [found |-> TRUE, index |-> below + Min(pick, Cardinality(hits) - 1)]

binary_search_by_addr(s, addr, pick) ==
    LET hits == {i \in Indices(s) : At(s, i).addr = addr}
        below == Cardinality({i \in Indices(s) : At(s, i).addr < addr})
    IN  IF hits = {}
        THEN [found |-> FALSE, index |-> below]
        ELSE [found |-> TRUE, index |-> below + Min(pick, Cardinality(hits) - 1)]

(***************************************************************************)
(* Allocator                                                               *)
(***************************************************************************)
new(total_size) ==
    [allocations |-> <<>>,
     free_by_addr |-> <<Allocation(0, total_size)>>,
     free_by_size |-> <<Allocation(0, total_size)>>,
     total_size |-> total_size,
     live_mem_refs |-> <<>>]

\* results of the helpers that can panic: ok = FALSE is the panic
Panicked(v) == [ok |-> FALSE, v |-> v]

Fine(v) == [ok |-> TRUE, v |-> v]

find_free_by_size(a, size, pick) == binary_search_by_size(a.free_by_size, size, pick)

find_free_by_address(a, addr, pick) == binary_search_by_addr(a.free_by_addr, addr, pick)

find_alloc_by_address(a, addr, pick) == binary_search_by_addr(a.allocations, addr, pick)

\* the while loop of insert_free_by_size: the first index >= from at which
\* the loop condition is false; Len(fbs) when the loop runs off the end
SkipLowerAddrs(fbs, from, alloc) ==
    LET stops == {i \in from..(Len(fbs) - 1) :
                    ~(At(fbs, i).addr < alloc.addr /\ At(fbs, i).size = alloc.size)}
    IN  IF stops = {} THEN Len(fbs)
        ELSE CHOOSE i \in stops : \A j \in stops : i <= j

\* an insert_free_by_size that leaves free_by_size as it is
SkipInsertBySize(fbs, alloc, pick) == Fine(fbs)

\* free_by_size after insert_free_by_size(alloc)
insert_free_by_size(fbs, alloc, pick) ==
    LET r == binary_search_by_size(fbs, alloc.size, pick)
    IN  IF r.found
        THEN LET index == SkipLowerAddrs(fbs, r.index, alloc)
             IN  IF index >= Len(fbs) THEN Panicked(fbs)            \* fbs[index] out of bounds
                 ELSE IF alloc = At(fbs, index) THEN Panicked(fbs)  \* assert_ne!
                 ELSE Fine(VecInsert(fbs, index, alloc))
        ELSE Fine(VecInsert(fbs, r.index, alloc))

\* free_by_size after remove_free_by_size(alloc)
\* r is what the binary search of remove_free_by_size returned
RemoveFromRun(fbs, alloc, r) ==
    LET start_index == r.index
        \* the run of equal sizes from start_index forward, and backward
        fwd == {i \in start_index..(Len(fbs) - 1) :
                   \A j \in start_index..i : At(fbs, j).size = alloc.size}
        bwd == {i \in 0..(start_index - 1) :
                   \A j \in i..(start_index - 1) : At(fbs, j).size = alloc.size}
        fwdHit == {i \in fwd : At(fbs, i).addr = alloc.addr
                               /\ \A j \in fwd : j < i => At(fbs, j).addr # alloc.addr}
        bwdHit == {i \in bwd : At(fbs, i).addr = alloc.addr
                               /\ \A j \in bwd : j > i => At(fbs, j).addr # alloc.addr}
    IN  IF ~r.found THEN Panicked(fbs)          \* "No allocation with the given size."
        ELSE IF fwdHit # {}
        THEN LET index == CHOOSE i \in fwdHit : TRUE
             IN  IF At(fbs, index) = alloc THEN Fine(VecRemove(fbs, index))
                 ELSE Panicked(fbs)             \* assert_eq!
        ELSE IF bwdHit # {}
        THEN LET index == CHOOSE i \in bwdHit : TRUE
             IN  IF At(fbs, index) = alloc THEN Fine(VecRemove(fbs, index))
                 ELSE Panicked(fbs)             \* assert_eq!
        ELSE Panicked(fbs)                      \* unreachable!

remove_free_by_size(fbs, alloc, pick) ==
    RemoveFromRun(fbs, alloc, binary_search_by_size(fbs, alloc.size, pick))

\* free_by_addr after remove_free_by_addr(alloc)
remove_free_by_addr(fba, alloc, pick) ==
    LET r == binary_search_by_addr(fba, alloc.addr, pick)
    IN  IF r.found
        THEN IF At(fba, r.index) = alloc THEN Fine(VecRemove(fba, r.index))
             ELSE Panicked(fba)                 \* assert_eq!
        ELSE Panicked(fba)                      \* "No allocation with the given addr."

\* allocations after insert_alloc(alloc)
insert_alloc(allocations, alloc, pick) ==
    LET r == binary_search_by_addr(allocations, alloc.addr, pick)
    IN  IF r.found THEN Panicked(allocations)   \* "Allocation at .. already exists."
        ELSE Fine(VecInsert(allocations, r.index, alloc))

\* TRUE iff the asserts of assert_order_free_by_addr(index) pass
assert_order_free_by_addr(fba, index) ==
    /\ index > 0 => At(fba, index - 1).addr < At(fba, index).addr
    /\ index < Len(fba) - 1 => At(fba, index + 1).addr > At(fba, index).addr

\* the result of an Allocator call: ok = FALSE is a panic, a the allocator
\* afterwards, ret the returned Allocation (alloc only)
Outcome(ok, a, ret) == [ok |-> ok, a |-> a, ret |-> ret]

Panic(a) == Outcome(FALSE, a, NoAllocation)

AllocExactFit(a, index, pick) ==
    LET alloc == At(a.free_by_size, index)
        fbs == VecRemove(a.free_by_size, index)
        fba == remove_free_by_addr(a.free_by_addr, alloc, pick)
        allocs == insert_alloc(a.allocations, alloc, pick)
    IN  IF ~fba.ok \/ ~allocs.ok THEN Panic(a)
        ELSE Outcome(TRUE,
                     [a EXCEPT !.free_by_size = fbs, !.free_by_addr = fba.v,
                               !.allocations = allocs.v],
                     alloc)

AllocNextBestFit(a, size, index, pick) ==
    IF index >= Len(a.free_by_size) THEN Panic(a)        \* free_by_size[index] out of bounds
    ELSE
    LET available_alloc == At(a.free_by_size, index)
        fbs1 == VecRemove(a.free_by_size, index)
        remaining_space == available_alloc.size - size
        remaining_free_alloc == Allocation(start(available_alloc) + size, remaining_space)
        fbs2 == insert_free_by_size(fbs1, remaining_free_alloc, pick)
        f == find_free_by_address(a, available_alloc.addr, pick)
        fba == VecSet(a.free_by_addr, f.index, remaining_free_alloc)
        new_alloc == Allocation(start(available_alloc), size)
        allocs == insert_alloc(a.allocations, new_alloc, pick)
    IN  IF ~(available_alloc.size >= size) THEN Panic(a)  \* assert!
        ELSE IF ~fbs2.ok THEN Panic(a)
        ELSE IF ~f.found THEN Panic(a)                    \* "Mismatch between ..."
        ELSE IF ~assert_order_free_by_addr(fba, f.index) THEN Panic(a)
        ELSE IF ~allocs.ok THEN Panic(a)
        ELSE Outcome(TRUE,
                     [a EXCEPT !.free_by_size = fbs2.v, !.free_by_addr = fba,
                               !.allocations = allocs.v],
                     new_alloc)

\* an alloc that takes the largest free block instead of the best fit
AllocLargest(a, size, pick) ==
    IF size = 0 \/ a.free_by_size = <<>> THEN Panic(a)
    ELSE IF At(a.free_by_size, Len(a.free_by_size) - 1).size = size
    THEN AllocExactFit(a, Len(a.free_by_size) - 1, pick)
    ELSE AllocNextBestFit(a, size, Len(a.free_by_size) - 1, pick)

alloc(a, size, pick) ==
    IF size = 0 THEN Panic(a)                             \* assert!(size != Size(0))
    ELSE LET r == find_free_by_size(a, size, pick)
         IN  IF r.found THEN AllocExactFit(a, r.index, pick)
             ELSE AllocNextBestFit(a, size, r.index, pick)

\* free, second half: the allocation is out of `allocations`, index is where
\* find_free_by_address said it belongs in free_by_addr
FreeMergeNext(a, freed_alloc, index, pick) ==
    LET next_free_alloc == At(a.free_by_addr, index)
        fbs1 == remove_free_by_size(a.free_by_size, next_free_alloc, pick)
        replacement == Allocation(start(freed_alloc), next_free_alloc.size + freed_alloc.size)
        fba == VecSet(a.free_by_addr, index, replacement)
        fbs2 == insert_free_by_size(fbs1.v, replacement, pick)
    IN  IF ~fbs1.ok THEN Panic(a)
        ELSE IF ~assert_order_free_by_addr(fba, index) THEN Panic(a)
        ELSE IF ~fbs2.ok THEN Panic(a)
        ELSE Outcome(TRUE, [a EXCEPT !.free_by_addr = fba, !.free_by_size = fbs2.v],
                     NoAllocation)

FreeMergePrev(a, freed_alloc, index, pick) ==
    LET prev_free_alloc == At(a.free_by_addr, index - 1)
        fbs1 == remove_free_by_size(a.free_by_size, prev_free_alloc, pick)
        replacement == Allocation(start(prev_free_alloc), prev_free_alloc.size + freed_alloc.size)
        fba == VecSet(a.free_by_addr, index - 1, replacement)
        fbs2 == insert_free_by_size(fbs1.v, replacement, pick)
    IN  IF ~fbs1.ok THEN Panic(a)
        ELSE IF ~assert_order_free_by_addr(fba, index - 1) THEN Panic(a)
        ELSE IF ~fbs2.ok THEN Panic(a)
        ELSE Outcome(TRUE, [a EXCEPT !.free_by_addr = fba, !.free_by_size = fbs2.v],
                     NoAllocation)

FreeInsert(a, freed_alloc, index, pick) ==
    LET fba == VecInsert(a.free_by_addr, index, freed_alloc)
        fbs == insert_free_by_size(a.free_by_size, freed_alloc, pick)
    IN  IF ~assert_order_free_by_addr(fba, index) THEN Panic(a)
        ELSE IF ~fbs.ok THEN Panic(a)
        ELSE Outcome(TRUE, [a EXCEPT !.free_by_addr = fba, !.free_by_size = fbs.v],
                     NoAllocation)

\* the `if index == self.free_by_addr.len()` block of free: push, with no return
FreePushAtEnd(a, freed_alloc, index, pick) ==
    LET fba == VecPush(a.free_by_addr, freed_alloc)
        fbs == insert_free_by_size(a.free_by_size, freed_alloc, pick)
    IN  IF ~assert_order_free_by_addr(fba, index) THEN Panic(a)
        ELSE IF ~fbs.ok THEN Panic(a)
        ELSE Outcome(TRUE, [a EXCEPT !.free_by_addr = fba, !.free_by_size = fbs.v],
                     NoAllocation)

\* the rest of free after that block
FreeMergeOrInsert(a, freed_alloc, index, pick) ==
    IF end(freed_alloc) = start(At(a.free_by_addr, index))
    THEN FreeMergeNext(a, freed_alloc, index, pick)
    ELSE IF index > 0 /\ end(At(a.free_by_addr, index - 1)) = start(freed_alloc)
    THEN FreeMergePrev(a, freed_alloc, index, pick)
    ELSE FreeInsert(a, freed_alloc, index, pick)

FreeIntoLists(a0, freed_alloc, index, pick) ==
    LET pushed == IF index = Len(a0.free_by_addr)
                  THEN FreePushAtEnd(a0, freed_alloc, index, pick)
                  ELSE Outcome(TRUE, a0, NoAllocation)
    IN  IF ~pushed.ok THEN Panic(a0)
        ELSE FreeMergeOrInsert(pushed.a, freed_alloc, index, pick)

\* free without the assert_eq! on the allocation found at the address
FreeAnySize(a, freed_alloc, pick) ==
    LET addr == freed_alloc.addr
        r == find_alloc_by_address(a, addr, pick)
    IN  IF ~r.found THEN Panic(a)
        ELSE LET a1 == [a EXCEPT !.allocations = VecRemove(a.allocations, r.index)]
                 f == find_free_by_address(a1, addr, pick)
             IN  IF f.found THEN Panic(a)
                 ELSE FreeIntoLists(a1, freed_alloc, f.index, pick)

free(a, freed_alloc, pick) ==
    LET addr == freed_alloc.addr
        r == find_alloc_by_address(a, addr, pick)
    IN  IF ~r.found THEN Panic(a)                         \* "Could not find allocation"
        ELSE IF At(a.allocations, r.index) # freed_alloc
        THEN Panic(a)                                     \* "Allocations differ in size."
        ELSE LET a1 == [a EXCEPT !.allocations = VecRemove(a.allocations, r.index)]
                 f == find_free_by_address(a1, addr, pick)
             IN  IF f.found THEN Panic(a)                 \* "Free-list already contains"
                 ELSE FreeIntoLists(a1, freed_alloc, f.index, pick)

(***************************************************************************)
(* The borrow tracker of the allocator: LiveMemRef, register_mem_ref,      *)
(* unregister_mem_ref                                                      *)
(***************************************************************************)
LiveMemRef_new(start_, len, mutable) ==
    [start |-> start_, end |-> start_ + len, mutable |-> mutable]

conflicts_with(self, other) ==
    IF ~self.mutable /\ ~other.mutable THEN FALSE
    ELSE self.end > other.start /\ other.end > self.start

\* the index of the allocation register_mem_ref checks the range against:
\* r is what find_alloc_by_address returned; ok = FALSE is assert!(index > 0)
BorrowedAllocIndex(r) ==
    IF r.found THEN Fine(r.index)
    ELSE IF r.index > 0 THEN Fine(r.index - 1)
    ELSE Panicked(0)

\* RegisterIn without the assert that the range ends inside the allocation
RegisterInUnbounded(a, new_mem_ref, alloc_index) ==
    IF ~(alloc_index < Len(a.allocations)) THEN Panic(a)
    ELSE IF \E i \in Indices(a.live_mem_refs) :
                conflicts_with(At(a.live_mem_refs, i), new_mem_ref)
    THEN Panic(a)
    ELSE Outcome(TRUE, [a EXCEPT !.live_mem_refs = VecPush(@, new_mem_ref)], new_mem_ref)

\* register_mem_ref once the allocation is chosen
RegisterIn(a, new_mem_ref, alloc_index) ==
    IF ~(alloc_index < Len(a.allocations)) THEN Panic(a)
    ELSE IF ~(new_mem_ref.end <= end(At(a.allocations, alloc_index))) THEN Panic(a)
    ELSE IF \E i \in Indices(a.live_mem_refs) :
                conflicts_with(At(a.live_mem_refs, i), new_mem_ref)
    THEN Panic(a)
    ELSE Outcome(TRUE, [a EXCEPT !.live_mem_refs = VecPush(@, new_mem_ref)], new_mem_ref)

register_mem_ref(a, addr, len, mutable, pick) ==
    LET alloc_index == BorrowedAllocIndex(find_alloc_by_address(a, addr, pick))
    IN  IF ~alloc_index.ok THEN Panic(a)
        ELSE RegisterIn(a, LiveMemRef_new(addr, len, mutable), alloc_index.v)

\* the swap-remove of unregister_mem_ref at the position rposition found
SwapRemove(refs, idx) ==
    LET last_index == Len(refs) - 1
        moved == IF idx # last_index THEN VecSet(refs, idx, At(refs, last_index)) ELSE refs
    IN  SubSeq(moved, 1, last_index)

unregister_mem_ref(a, mem_ref) ==
    LET hits == {i \in Indices(a.live_mem_refs) : At(a.live_mem_refs, i) = mem_ref}
    IN  IF hits = {} THEN Panic(a)                        \* expect("wat?!")
        ELSE Outcome(TRUE,
                     [a EXCEPT !.live_mem_refs =
                         SwapRemove(@, CHOOSE i \in hits : \A j \in hits : j <= i)],
                     NoAllocation)

(***************************************************************************)
(* The allocator on its own: Allocator::new, then alloc and free calls     *)
(* with any arguments.                                                     *)
(***************************************************************************)
NoCall == [op |-> "none", arg |-> NoAllocation, ok |-> TRUE, ret |-> NoAllocation]

\* the variables of the arena and the hash table, unused by the allocator alone
tableVars == <<storage, table, setup, reference, calls>>

InitAlloc ==
    /\ \E total_size \in 1..MaxTotalSize : allocator = new(total_size)
    /\ status = "ok"
    /\ last = NoCall
    /\ storage = <<>>
    /\ table = [alive |-> FALSE, data |-> NoAllocation]
    /\ setup = [debug_assertions |-> FALSE, arena |-> allocator.total_size]
    /\ reference = <<>>
    /\ calls = 0

AllocCall ==
    /\ status = "ok"
    /\ \E size \in 0..MaxAllocSize, pick \in Picks :
         LET o == alloc(allocator, size, pick)
         IN  /\ allocator' = o.a
             /\ status' = IF o.ok THEN "ok" ELSE "panic"
             /\ last' = [op |-> "alloc", arg |-> Allocation(0, size), ok |-> o.ok,
                         ret |-> o.ret]
             /\ UNCHANGED tableVars

FreeCall ==
    /\ status = "ok"
    /\ \E addr \in 0..(allocator.total_size - 1), size \in 1..MaxAllocSize, pick \in Picks :
         LET o == free(allocator, Allocation(addr, size), pick)
         IN  /\ allocator' = o.a
             /\ status' = IF o.ok THEN "ok" ELSE "panic"
             /\ last' = [op |-> "free", arg |-> Allocation(addr, size), ok |-> o.ok,
                         ret |-> NoAllocation]
             /\ UNCHANGED tableVars

NextAlloc == AllocCall \/ FreeCall

SpecAlloc == InitAlloc /\ [][NextAlloc]_vars

(***************************************************************************)
(* The allocator with its borrow tracker (debug builds): alloc, free,      *)
(* register_mem_ref and unregister_mem_ref calls with any arguments.       *)
(***************************************************************************)
\* size of the arena, longest borrowed range, most borrows alive at a time
BorrowArena == 3
MaxBorrowLen == 2
MaxLiveBorrows == 2

InitBorrow ==
    /\ allocator = new(BorrowArena)
    /\ status = "ok"
    /\ last = NoCall
    /\ storage = <<>>
    /\ table = [alive |-> FALSE, data |-> NoAllocation]
    /\ setup = [debug_assertions |-> TRUE, arena |-> BorrowArena]
    /\ reference = <<>>
    /\ calls = 0

\* Memory::get_bytes (mutable = FALSE) or get_bytes_mut (TRUE) creates a MemRef
RegisterCall ==
    /\ status = "ok"
    /\ Len(allocator.live_mem_refs) < MaxLiveBorrows
    /\ \E addr \in 0..allocator.total_size, len \in 0..MaxBorrowLen,
          mutable \in BOOLEAN, pick \in Picks :
         LET o == register_mem_ref(allocator, addr, len, mutable, pick)
         IN  /\ allocator' = o.a
             /\ status' = IF o.ok THEN "ok" ELSE "panic"
             /\ last' = [op |-> "register", arg |-> LiveMemRef_new(addr, len, mutable),
                         ok |-> o.ok, ret |-> o.ret]
             /\ UNCHANGED tableVars

\* a MemRef or MemRefMut is dropped
UnregisterCall ==
    /\ status = "ok"
    /\ \E i \in Indices(allocator.live_mem_refs) :
         LET o == unregister_mem_ref(allocator, At(allocator.live_mem_refs, i))
         IN  /\ allocator' = o.a
             /\ status' = IF o.ok THEN "ok" ELSE "panic"
             /\ last' = [op |-> "unregister", arg |-> At(allocator.live_mem_refs, i),
                         ok |-> o.ok, ret |-> NoAllocation]
             /\ UNCHANGED tableVars

NextBorrow == AllocCall \/ FreeCall \/ RegisterCall \/ UnregisterCall

SpecBorrow == InitBorrow /\ [][NextBorrow]_vars

(***************************************************************************)
(* The allocator in an arena large enough to hold, next to a live          *)
(* allocation, two free blocks of which alloc splits the smaller: a        *)
(* program that makes at most MaxFitCalls calls of alloc and free.         *)
(***************************************************************************)
FitArena == 6
MaxFitCalls == 6

InitFit ==
    /\ allocator = new(FitArena)
    /\ status = "ok"
    /\ last = NoCall
    /\ storage = <<>>
    /\ table = [alive |-> FALSE, data |-> NoAllocation]
    /\ setup = [debug_assertions |-> FALSE, arena |-> FitArena]
    /\ reference = <<>>
    /\ calls = 0

FitAllocCall ==
    /\ status = "ok" /\ calls < MaxFitCalls
    /\ \E size \in 0..MaxAllocSize, pick \in Picks :
         LET o == alloc(allocator, size, pick)
         IN  /\ allocator' = o.a
             /\ status' = IF o.ok THEN "ok" ELSE "panic"
             /\ last' = [op |-> "alloc", arg |-> Allocation(0, size), ok |-> o.ok,
                         ret |-> o.ret]
             /\ calls' = calls + 1
             /\ UNCHANGED <<storage, table, setup, reference>>

FitFreeCall ==
    /\ status = "ok" /\ calls < MaxFitCalls
    /\ \E addr \in 0..(allocator.total_size - 1), size \in 1..MaxAllocSize, pick \in Picks :
         LET o == free(allocator, Allocation(addr, size), pick)
         IN  /\ allocator' = o.a
             /\ status' = IF o.ok THEN "ok" ELSE "panic"
             /\ last' = [op |-> "free", arg |-> Allocation(addr, size), ok |-> o.ok,
                         ret |-> NoAllocation]
             /\ calls' = calls + 1
             /\ UNCHANGED <<storage, table, setup, reference>>

NextFit == FitAllocCall \/ FitFreeCall

SpecFit == InitFit /\ [][NextFit]_vars

(***************************************************************************)
(* Properties of the allocator                                             *)
(***************************************************************************)
\* the bytes of a block
Bytes(b) == start(b)..(end(b) - 1)

\* how many blocks of the sequence s contain the byte x
Covering(s, x) == Cardinality({i \in Indices(s) : x \in Bytes(At(s, i))})

FreeBlocks(a) == {At(a.free_by_addr, i) : i \in Indices(a.free_by_addr)}

FreeBlocksBySize(a) == {At(a.free_by_size, i) : i \in Indices(a.free_by_size)}

LiveAllocations(a) == {At(a.allocations, i) : i \in Indices(a.allocations)}

\* C1: after any sequence of successful alloc and free calls every byte of
\* [0, total_size) lies in exactly one live allocation or exactly one free
\* block (of either free view), and no block reaches beyond total_size.
C1_ExactCover ==
    status = "ok" =>
        /\ \A x \in 0..(allocator.total_size - 1) :
             /\ Covering(allocator.allocations \o allocator.free_by_addr, x) = 1
             /\ Covering(allocator.allocations \o allocator.free_by_size, x) = 1
        /\ \A b \in LiveAllocations(allocator) \cup FreeBlocks(allocator)
                    \cup FreeBlocksBySize(allocator) :
             end(b) <= allocator.total_size

\* C4: after any sequence of successful alloc and free calls every free block
\* has size >= 1 and no free block ends where another free block starts.
C4_NoAbuttingFreeBlocks ==
    status = "ok" =>
        \A b \in FreeBlocks(allocator) \cup FreeBlocksBySize(allocator) :
            /\ b.size >= 1
            /\ \A c \in FreeBlocks(allocator) \cup FreeBlocksBySize(allocator) :
                 end(b) # start(c)

\* C5: free(x) with a free block ending at x.addr and a free block starting
\* at x.addr + x.size succeeds and leaves, in both free views, one block from
\* the previous block's start to the next block's end, and neither of the two
\* old neighbours nor a block for x.
C5_FreeMergesBothNeighbours ==
    status = "ok" =>
        \A x \in LiveAllocations(allocator) :
          \A prev, next \in FreeBlocks(allocator) :
            (end(prev) = start(x) /\ start(next) = end(x)) =>
              \A pick \in Picks :
                LET o == free(allocator, x, pick)
                    merged == Allocation(start(prev), prev.size + x.size + next.size)
                IN  /\ o.ok
                    /\ merged \in FreeBlocks(o.a) /\ merged \in FreeBlocksBySize(o.a)
                    /\ {prev, next, x} \cap (FreeBlocks(o.a) \cup FreeBlocksBySize(o.a)) = {}

\* C6: in every reachable allocator state alloc(size) succeeds, returning
\* exactly size bytes, when size > 0 and some free block has size >= size, and
\* is fatal exactly when size = 0 or no free block is large enough.
C6_AllocSucceedsIffFits ==
    status = "ok" =>
        \A size \in 0..MaxAllocSize, pick \in Picks :
            LET o == alloc(allocator, size, pick)
                fits == size > 0 /\ \E b \in FreeBlocksBySize(allocator) : b.size >= size
            IN  /\ o.ok <=> fits
                /\ o.ok => o.ret.size = size

\* C7: in every reachable allocator state in which alloc(n) succeeds, freeing
\* the returned allocation right away succeeds and restores allocations,
\* free_by_addr and free_by_size.
C7_AllocThenFreeRestores ==
    status = "ok" =>
        \A n \in 1..MaxAllocSize, pick \in Picks :
            LET o == alloc(allocator, n, pick)
            IN  o.ok => \A pick2 \in Picks :
                          LET f == free(o.a, o.ret, pick2)
                          IN  f.ok /\ f.a = allocator

(***************************************************************************)
(* u64 values.  TLC's integers have 32 bits, so a u64 is the set of the    *)
(* positions (0 = least significant) of its bits that are 1.               *)
(***************************************************************************)
RECURSIVE PowerOf2(_)
PowerOf2(n) == IF n = 0 THEN 1 ELSE 2 * PowerOf2(n - 1)

\* 2^n for n in 0..30, computed once
Pow2Table == [n \in 0..30 |-> PowerOf2(n)]
Pow2(n) == Pow2Table[n]

BitPositions == 0..63

\* w << k, w >> k, a & b, a | b and !w on u64
Shl(w, k) == {i + k : i \in w} \cap BitPositions
Shr(w, k) == {i - k : i \in w} \cap BitPositions
BitAnd(a, b) == a \cap b
BitOr(a, b) == a \cup b
BitNot(w) == BitPositions \ w

\* the bits of the bytes, computed once
ByteBits == [b \in 0..255 |-> {i \in 0..7 : (b \div Pow2(i)) % 2 = 1}]

\* `n as u64` for a number below 256 (a length, or 1)
AsU64(n) == ByteBits[n]

\* the value of bit i of w
BitValue(w, i) == IF i \in w THEN Pow2(i) ELSE 0

\* `w as u32` for a value below 256
AsU32(w) ==
    BitValue(w, 0) + BitValue(w, 1) + BitValue(w, 2) + BitValue(w, 3)
    + BitValue(w, 4) + BitValue(w, 5) + BitValue(w, 6) + BitValue(w, 7)

\* (1u64 << count) - 1
LowBits(count) == 0..(count - 1)

(***************************************************************************)
(* byteorder::LittleEndian                                                 *)
(***************************************************************************)
u32_to_bytes(n) == [j \in 1..4 |-> (n \div Pow2(8 * (j - 1))) % 256]
u32_from_bytes(b) == b[1] + 256 * b[2] + 65536 * b[3] + 16777216 * b[4]
u64_to_bytes(w) == [j \in 1..8 |-> AsU32(BitAnd(Shr(w, 8 * (j - 1)), LowBits(8)))]
u64_from_bytes(b) == UNION {Shl(AsU64(b[j]), 8 * (j - 1)) : j \in 1..8}

(***************************************************************************)
(* Memory<MemStore>.  A call works on a machine m: the arena's bytes, the  *)
(* allocator, the table handle, st ("ok", "panic" or "hang") and ret, the  *)
(* value the last callee returned.  Once st is not "ok" nothing runs.      *)
(***************************************************************************)
Die(m) == [m EXCEPT !.st = "panic"]
Hang(m) == [m EXCEPT !.st = "hang"]
Return(m, v) == IF m.st = "ok" THEN [m EXCEPT !.ret = v] ELSE m

\* MemStore::new: size zero bytes
MemStore_new(size) == [i \in 1..size |-> 0]

\* the assert of MemStore::get_slice and get_slice_mut
InStore(m, addr, len) == addr + len <= Len(m.storage)

\* the bytes a slice of the arena holds
get_bytes(m, addr, len) == SubSeq(m.storage, addr + 1, addr + len)

\* get_bytes_mut(addr, len).copy_from_slice(bytes)
put_bytes(m, addr, bytes) ==
    IF m.st # "ok" THEN m
    ELSE IF ~InStore(m, addr, Len(bytes)) THEN Die(m)
    ELSE [m EXCEPT !.storage =
            SubSeq(@, 1, addr) \o bytes \o SubSeq(@, addr + Len(bytes) + 1, Len(@))]

Zeros(len) == [i \in 1..len |-> 0]

\* fill_zero(get_bytes_mut(addr, len))
fill_zero(m, addr, len) == put_bytes(m, addr, Zeros(len))

\* the machine after self.allocator.lock().alloc(..) or .free(..) had the
\* outcome o (free returns nothing: its ret is NoAllocation)
FromAllocator(m, o) ==
    [m EXCEPT !.allocator = o.a,
              !.st = IF o.ok THEN "ok" ELSE "panic",
              !.ret = o.ret]

Memory_alloc(m, size) ==
    IF m.st # "ok" THEN m
    ELSE FromAllocator(m, alloc(m.allocator, size, m.pick))

Memory_free(m, allocation) ==
    LET zeroed == fill_zero(m, allocation.addr, allocation.size)
    IN  IF zeroed.st # "ok" THEN zeroed
        ELSE FromAllocator(zeroed, free(zeroed.allocator, allocation, zeroed.pick))

Memory_copy_nonoverlapping(m, src, dst, len) ==
    IF m.st # "ok" THEN m
    ELSE IF ~(src >= dst + len \/ dst >= src + len) THEN Die(m)
    ELSE IF ~InStore(m, src, len) THEN Die(m)
    ELSE put_bytes(m, dst, get_bytes(m, src, len))

\* persist.rs: u32::read_at, u64::read_at; the caller checks InStore
read_u32(m, addr) == u32_from_bytes(get_bytes(m, addr, 4))
read_u64(m, addr) == u64_from_bytes(get_bytes(m, addr, 8))
write_u32(m, addr, val) == put_bytes(m, addr, u32_to_bytes(val))
write_u64(m, addr, val) == put_bytes(m, addr, u64_to_bytes(val))

(***************************************************************************)
(* hashtable.rs: layout of a table and of an entry's metadata              *)
(***************************************************************************)
MAGIC_HEADER == <<72, 65, 83, 72>>

MAGIC_HEADER_OFFSET == 0
LEN_OFFSET == MAGIC_HEADER_OFFSET + 4
CAPACITY_OFFSET == LEN_OFFSET + 4
HEADER_SIZE == CAPACITY_OFFSET + 4
ENTRY_META_SIZE == 8

\* DefaultHashTableConfig
MAX_INLINE_KEY_LEN == 4
MAX_INLINE_VALUE_LEN == 4
ENTRY_SIZE == MAX_INLINE_KEY_LEN + MAX_INLINE_VALUE_LEN + ENTRY_META_SIZE

\* size_of::<Address>()
ADDRESS_SIZE == 4

ENTRY_META_IS_EMPTY_BIT == Shl(AsU64(1), 63)
ENTRY_META_INLINE_LEN_BIT_COUNT == 7
ENTRY_META_INLINE_LEN_MASK == LowBits(ENTRY_META_INLINE_LEN_BIT_COUNT)
ENTRY_META_HASH_BIT_COUNT == 64 - (4 + ENTRY_META_INLINE_LEN_BIT_COUNT * 2)
ENTRY_META_HASH_MASK == LowBits(ENTRY_META_HASH_BIT_COUNT)

\* DataKindKey with the shift of DataKindValue for its inline length
DataKindKeyHigh ==
    [IS_INLINE_BIT_SHIFT |-> 61,
     INLINE_LEN_SHIFT |-> ENTRY_META_HASH_BIT_COUNT + ENTRY_META_INLINE_LEN_BIT_COUNT,
     max_inline_size |-> MAX_INLINE_KEY_LEN,
     offset_within_entry |-> ENTRY_META_SIZE]

\* the two implementations of EntryDataKind
DataKindKey ==
    [IS_INLINE_BIT_SHIFT |-> 61,
     INLINE_LEN_SHIFT |-> ENTRY_META_HASH_BIT_COUNT,
     max_inline_size |-> MAX_INLINE_KEY_LEN,
     offset_within_entry |-> ENTRY_META_SIZE]

DataKindValue ==
    [IS_INLINE_BIT_SHIFT |-> 60,
     INLINE_LEN_SHIFT |-> ENTRY_META_HASH_BIT_COUNT + ENTRY_META_INLINE_LEN_BIT_COUNT,
     max_inline_size |-> MAX_INLINE_VALUE_LEN,
     offset_within_entry |-> ENTRY_META_SIZE + MAX_INLINE_KEY_LEN]

IS_INLINE_BIT(K) == Shl(AsU64(1), K.IS_INLINE_BIT_SHIFT)
IS_INLINE_CLEAR_MASK(K) == BitNot(IS_INLINE_BIT(K))
INLINE_LEN_CLEAR_MASK(K) == BitNot(Shl(ENTRY_META_INLINE_LEN_MASK, K.INLINE_LEN_SHIFT))

\* debug_assert!(cond): checked only when the build has debug_assertions
DebugAssert(m, cond) == IF m.st = "ok" /\ m.debug /\ ~cond THEN Die(m) ELSE m

\* assert!(cond)
Require(m, cond) == IF m.st = "ok" /\ ~cond THEN Die(m) ELSE m

(***************************************************************************)
(* Entry { metadata, addr }                                                *)
(***************************************************************************)
Entry(metadata, addr) == [metadata |-> metadata, addr |-> addr]

Entry_hash(e) == BitAnd(e.metadata, ENTRY_META_HASH_MASK)
hash_equal(e, hash) == Entry_hash(e) = BitAnd(hash, ENTRY_META_HASH_MASK)
is_empty(e) == BitAnd(e.metadata, ENTRY_META_IS_EMPTY_BIT) = {}
is_entry_data_inline(e, K) == BitAnd(e.metadata, IS_INLINE_BIT(K)) = {}
inline_entry_data_len(e, K) ==
    AsU32(BitAnd(Shr(e.metadata, K.INLINE_LEN_SHIFT), ENTRY_META_INLINE_LEN_MASK))

\* the bytes of the key or of the value of an entry; ok = FALSE when a slice
\* it takes lies outside the arena
entry_data(m, e, K) ==
    LET data_addr == e.addr + K.offset_within_entry
    IN  IF is_entry_data_inline(e, K)
        THEN LET inline_data_len == inline_entry_data_len(e, K)
             IN  IF InStore(m, data_addr, inline_data_len)
                 THEN Fine(get_bytes(m, data_addr, inline_data_len))
                 ELSE Panicked(<<>>)
        ELSE IF ~InStore(m, data_addr, ADDRESS_SIZE) THEN Panicked(<<>>)
        ELSE LET indirect == read_u32(m, data_addr)
             IN  IF ~InStore(m, indirect, 1) THEN Panicked(<<>>)
                 ELSE LET data_len == get_bytes(m, indirect, 1)[1]
                      IN  IF InStore(m, indirect + 1, data_len)
                          THEN Fine(get_bytes(m, indirect + 1, data_len))
                          ELSE Panicked(<<>>)

init_non_empty(m, e, hash) ==
    LET e1 == Entry(BitOr(BitAnd(hash, ENTRY_META_HASH_MASK), ENTRY_META_IS_EMPTY_BIT),
                    e.addr)
        m1 == write_u64(m, e1.addr, e1.metadata)
    IN  Return(DebugAssert(m1, ~is_empty(e1)), e1)

delete_entry_data(m, e, K) ==
    LET data_addr == e.addr + K.offset_within_entry
    IN  IF m.st # "ok" \/ is_entry_data_inline(e, K) THEN m
        ELSE IF ~InStore(m, data_addr, ADDRESS_SIZE) THEN Die(m)
        ELSE LET indirect == read_u32(m, data_addr)
             IN  IF ~InStore(m, indirect, 1) THEN Die(m)
                 ELSE LET data_len == get_bytes(m, indirect, 1)[1]
                      IN  Memory_free(m, Allocation(indirect, data_len + 1))

\* the end of set_entry_data: write the metadata back, re-read the data
SetEntryDataFinish(m, e, K, bytes) ==
    LET m1 == write_u64(m, e.addr, e.metadata)
        back == entry_data(m1, e, K)
    IN  IF m1.st = "ok" /\ m1.debug /\ ~back.ok THEN Die(m1)
        ELSE Return(DebugAssert(m1, back.v = bytes), e)

SetEntryDataInline(m, e, K, bytes) ==
    LET max_inline_size == K.max_inline_size
        m1 == put_bytes(m, e.addr + K.offset_within_entry,
                        bytes \o Zeros(max_inline_size - Len(bytes)))
        md1 == BitAnd(e.metadata, IS_INLINE_CLEAR_MASK(K))
        md2 == BitAnd(md1, INLINE_LEN_CLEAR_MASK(K))
        md3 == BitOr(md2, Shl(AsU64(Len(bytes)), K.INLINE_LEN_SHIFT))
        e1 == Entry(md3, e.addr)
        m2 == DebugAssert(m1, is_entry_data_inline(e1, K))
        m3 == DebugAssert(m2, inline_entry_data_len(e1, K) = Len(bytes))
    IN  SetEntryDataFinish(m3, e1, K, bytes)

\* the else branch of set_entry_data; m1 is the machine after
\* memory.alloc(Size::from_usize(bytes.len() + 1)), allocation what it returned
SetEntryDataAt(m1, e, K, bytes) ==
    LET max_inline_size == K.max_inline_size
        allocation == m1.ret
        m2 == put_bytes(m1, allocation.addr, <<Len(bytes)>> \o bytes)
        m3 == put_bytes(m2, e.addr + K.offset_within_entry,
                        u32_to_bytes(allocation.addr) \o Zeros(max_inline_size - ADDRESS_SIZE))
        md1 == BitOr(e.metadata, IS_INLINE_BIT(K))
        md2 == BitAnd(md1, INLINE_LEN_CLEAR_MASK(K))
        e1 == Entry(md2, e.addr)
        m4 == DebugAssert(m3, ~is_entry_data_inline(e1, K))
        m5 == DebugAssert(m4, inline_entry_data_len(e1, K) = 0)
    IN  SetEntryDataFinish(m5, e1, K, bytes)

SetEntryDataIndirect(m, e, K, bytes) ==
    SetEntryDataAt(Memory_alloc(m, Len(bytes) + 1), e, K, bytes)

\* set_entry_data from `if bytes.len() <= K::max_inline_size()` on
SetEntryDataWrite(m, e, K, bytes) ==
    IF m.st # "ok" THEN m
    ELSE IF Len(bytes) <= K.max_inline_size
    THEN SetEntryDataInline(m, e, K, bytes)
    ELSE SetEntryDataIndirect(m, e, K, bytes)

set_entry_data(m, e, K, bytes) ==
    SetEntryDataWrite(
        DebugAssert(delete_entry_data(Require(m, Len(bytes) < 256), e, K),
                    ~is_empty(e)),
        e, K, bytes)

\* entry.set_entry_data::<K>(memory, bytes) on the entry the call before left
set_entry_data_of_ret(m, K, bytes) == set_entry_data(m, m.ret, K, bytes)

clear(m, e) ==
    LET m1 == DebugAssert(m, ~is_empty(e))
        m2 == delete_entry_data(m1, e, DataKindKey)
        m3 == delete_entry_data(m2, e, DataKindValue)
    IN  fill_zero(m3, e.addr, ENTRY_SIZE)

(***************************************************************************)
(* RawTable: header accessors and index arithmetic                         *)
(***************************************************************************)
None == [some |-> FALSE, v |-> <<>>]
Some(v) == [some |-> TRUE, v |-> v]

set_len(m, table_data, new_len) == write_u32(m, table_data.addr + LEN_OFFSET, new_len)
set_capacity(m, table_data, capacity) ==
    write_u32(m, table_data.addr + CAPACITY_OFFSET, capacity)
RawTable_len(m, table_data) == read_u32(m, table_data.addr + LEN_OFFSET)
RawTable_capacity(m, table_data) == read_u32(m, table_data.addr + CAPACITY_OFFSET)

entry_array_len_for_capacity(capacity) == (capacity * 3) \div 2
entry_array_len(m, table_data) ==
    entry_array_len_for_capacity(RawTable_capacity(m, table_data))
entry_addr(table_data, entry_index) ==
    table_data.addr + HEADER_SIZE + ENTRY_SIZE * entry_index
byte_count_for_capacity(capacity) ==
    HEADER_SIZE + ENTRY_SIZE * entry_array_len_for_capacity(capacity)

\* hash_for is MetroHash, a function of the key's bytes; setup.hashes holds
\* the values it takes on the keys in use
hash_for(m, key) == m.hashes[key]

RECURSIVE Pow2Mod(_, _)
Pow2Mod(i, n) == IF i = 0 THEN 1 % n ELSE (2 * Pow2Mod(i - 1, n)) % n

RECURSIVE U32Mod(_, _)
U32Mod(w, n) ==
    IF w = {} THEN 0
    ELSE LET i == CHOOSE i \in w : TRUE
         IN  (Pow2Mod(i, n) + U32Mod(w \ {i}, n)) % n

\* hash % table_size without the cast to u32
IndexOfU64(hash, table_size) == U32Mod(hash, table_size)

\* hash as u32 % table_size; a table_size of 0 is a panic the caller models
index_in_table(hash, table_size) == U32Mod(BitAnd(hash, LowBits(32)), table_size)

advance_index(index, table_size) == (index + 1) % table_size

\* ok = FALSE when the debug assertion fails or the slot lies outside the arena
get_entry(m, table_data, entry_index) ==
    LET addr == entry_addr(table_data, entry_index)
    IN  IF m.debug /\ ~(entry_index < entry_array_len(m, table_data))
        THEN Panicked(Entry({}, addr))
        ELSE IF ~InStore(m, addr, ENTRY_META_SIZE) THEN Panicked(Entry({}, addr))
        ELSE Fine(Entry(read_u64(m, addr), addr))

\* alloc_with_capacity after memory.alloc(byte_count), which left m1
WriteHeader(m1, capacity) ==
    LET byte_count == byte_count_for_capacity(capacity)
        data == m1.ret
        m2 == put_bytes(m1, data.addr, MAGIC_HEADER)
        m3 == set_len(m2, data, 0)
        m4 == set_capacity(m3, data, capacity)
        m5 == Require(m4, (byte_count - HEADER_SIZE) % ENTRY_SIZE = 0)
    IN  Return(m5, data)

alloc_with_capacity(m, capacity) ==
    WriteHeader(Memory_alloc(m, byte_count_for_capacity(capacity)), capacity)

(***************************************************************************)
(* RawTable::find                                                          *)
(***************************************************************************)
\* the loop of find; steps counts the slots visited.  find writes nothing,
\* so once every slot was visited without a return the loop never ends.
RECURSIVE FindLoop(_, _, _, _, _, _, _)
FindLoop(m, table_data, key, hash, table_size, entry_index, steps) ==
    LET g == get_entry(m, table_data, entry_index)
        entry == g.v
        k == entry_data(m, entry, DataKindKey)
        v == entry_data(m, entry, DataKindValue)
        next == advance_index(entry_index, table_size)
    IN  IF steps >= table_size THEN Hang(m)
        ELSE IF ~g.ok THEN Die(m)
        ELSE IF is_empty(entry) THEN Return(m, None)
        ELSE IF ~hash_equal(entry, hash)
        THEN FindLoop(m, table_data, key, hash, table_size, next, steps + 1)
        ELSE IF ~k.ok THEN Die(m)
        ELSE IF k.v # key
        THEN FindLoop(m, table_data, key, hash, table_size, next, steps + 1)
        ELSE IF ~v.ok THEN Die(m)
        ELSE Return(m, Some(v.v))

find(m, table_data, key) ==
    LET table_size == entry_array_len(m, table_data)
        hash == hash_for(m, key)
    IN  IF m.st # "ok" THEN m
        ELSE IF table_size = 0 THEN Die(m)
        ELSE FindLoop(m, table_data, key, hash, table_size,
                      index_in_table(hash, table_size), 0)

(***************************************************************************)
(* RawTable::sanity_check_entry, sanity_check_table                        *)
(***************************************************************************)
RECURSIVE SanityLoop(_, _, _, _, _)
SanityLoop(m, table_data, table_size, min_entry_index, i) ==
    LET g == get_entry(m, table_data, i)
    IN  IF i = min_entry_index THEN m
        ELSE IF ~g.ok \/ is_empty(g.v) THEN Die(m)
        ELSE SanityLoop(m, table_data, table_size, min_entry_index,
                        IF i = 0 THEN table_size - 1 ELSE i - 1)

sanity_check_entry(m, table_data, entry_index) ==
    LET g == get_entry(m, table_data, entry_index)
        table_size == entry_array_len(m, table_data)
    IN  IF m.st # "ok" THEN m
        ELSE IF ~g.ok THEN Die(m)
        ELSE IF is_empty(g.v) THEN m
        ELSE IF table_size = 0 THEN Die(m)
        ELSE SanityLoop(m, table_data, table_size,
                        index_in_table(Entry_hash(g.v), table_size), entry_index)

RECURSIVE SanityTableLoop(_, _, _, _)
SanityTableLoop(m, table_data, table_size, index) ==
    IF m.st # "ok" \/ index >= table_size THEN m
    ELSE SanityTableLoop(sanity_check_entry(m, table_data, index),
                         table_data, table_size, index + 1)

sanity_check_table(m, table_data) ==
    SanityTableLoop(m, table_data, entry_array_len(m, table_data), 0)

(***************************************************************************)
(* RawTable::resize.  The handle *table_data is m.data.                    *)
(***************************************************************************)
\* the inner loop: the first empty slot of the new table from insertion_index
\* on receives a copy of read_entry; ret = TRUE when one was found
RECURSIVE ResizeInner(_, _, _, _, _, _)
ResizeInner(m, new_table_data, new_table_size, read_entry, insertion_index, steps) ==
    LET g == get_entry(m, new_table_data, insertion_index)
        new_entry == g.v
    IN  IF steps >= new_table_size THEN Return(m, FALSE)
        ELSE IF ~g.ok THEN Die(m)
        ELSE IF is_empty(new_entry)
        THEN Return(Memory_copy_nonoverlapping(m, read_entry.addr, new_entry.addr,
                                               ENTRY_SIZE), TRUE)
        ELSE ResizeInner(m, new_table_data, new_table_size, read_entry,
                         advance_index(insertion_index, new_table_size), steps + 1)

\* the loop over the slots of the old table and the debug_assert_eq! that
\* follows it
RECURSIVE ResizeOuter(_, _, _, _, _, _, _)
ResizeOuter(m, new_table_data, new_table_size, old_table_size, old_len, read_index, written) ==
    LET g == get_entry(m, m.data, read_index)
        read_entry == g.v
        placed == ResizeInner(m, new_table_data, new_table_size, read_entry,
                              index_in_table(Entry_hash(read_entry), new_table_size), 0)
    IN  IF m.st # "ok" THEN m
        ELSE IF read_index >= old_table_size
        THEN DebugAssert(m, written = old_len)
        ELSE IF ~g.ok THEN Die(m)
        ELSE IF is_empty(read_entry)
        THEN ResizeOuter(m, new_table_data, new_table_size, old_table_size, old_len,
                         read_index + 1, written)
        ELSE IF new_table_size = 0 THEN Die(m)
        ELSE IF placed.st # "ok" THEN placed
        ELSE IF ~placed.ret THEN Die(placed)
        ELSE ResizeOuter(DebugAssert(placed, written + 1 <= old_len),
                         new_table_data, new_table_size, old_table_size, old_len,
                         read_index + 1, written + 1)

\* resize after alloc_with_capacity, which left m1 and returned the new table
ResizeInto(m1, new_capacity) ==
    LET new_table_data == m1.ret
        new_table_size == entry_array_len(m1, new_table_data)
        m2 == DebugAssert(m1, new_table_size > 0)
        m3 == Require(m2, new_table_size = entry_array_len_for_capacity(new_capacity))
        old_len == RawTable_len(m3, m1.data)
        m4 == ResizeOuter(m3, new_table_data, new_table_size,
                          entry_array_len(m3, m1.data), old_len, 0, 0)
        m6 == set_len(m4, new_table_data, old_len)
    IN  IF m1.st # "ok" THEN m1
        ELSE [Memory_free(m6, m1.data) EXCEPT !.data = new_table_data]

resize(m, new_capacity) == ResizeInto(alloc_with_capacity(m, new_capacity), new_capacity)

(***************************************************************************)
(* RawTable::insert                                                        *)
(***************************************************************************)
\* the body of the loop for an empty slot: the key is added
\* insert: the len update that follows a new key, with its debug_assert_eq!
IncrementLen(m) ==
    LET old_len == RawTable_len(m, m.data)
        m1 == set_len(m, m.data, old_len + 1)
    IN  IF m.st # "ok" THEN m
        ELSE DebugAssert(m1, RawTable_len(m1, m1.data) = old_len + 1)

InsertNew(m, entry, key, value, hash) ==
    IncrementLen(
        set_entry_data_of_ret(
            set_entry_data_of_ret(init_non_empty(m, entry, hash), DataKindKey, key),
            DataKindValue, value))

\* the for loop of insert; ret = [key_added, entry_index] when it is left
RECURSIVE InsertLoop(_, _, _, _, _, _, _)
InsertLoop(m, key, value, hash, table_size, entry_index, steps) ==
    LET g == get_entry(m, m.data, entry_index)
        entry == g.v
        k == entry_data(m, entry, DataKindKey)
        next == advance_index(entry_index, table_size)
    IN  IF steps >= table_size
        THEN Return(m, [key_added |-> FALSE, entry_index |-> entry_index])
        ELSE IF ~g.ok THEN Die(m)
        ELSE IF is_empty(entry)
        THEN Return(InsertNew(m, entry, key, value, hash),
                    [key_added |-> TRUE, entry_index |-> entry_index])
        ELSE IF ~hash_equal(entry, hash)
        THEN InsertLoop(m, key, value, hash, table_size, next, steps + 1)
        ELSE IF ~k.ok THEN Die(m)
        ELSE IF k.v # key
        THEN InsertLoop(m, key, value, hash, table_size, next, steps + 1)
        ELSE Return(set_entry_data(DebugAssert(m, ~is_empty(entry)), entry,
                                   DataKindValue, value),
                    [key_added |-> FALSE, entry_index |-> entry_index])

\* the #[cfg(debug_assertions)] block that ends insert, and its return;
\* m.ret is what the loop left
InsertChecks(m, key, value, hash) ==
    LET entry_index == m.ret.entry_index
        g == get_entry(m, m.data, entry_index)
        actual_entry == g.v
        k == entry_data(m, actual_entry, DataKindKey)
        v == entry_data(m, actual_entry, DataKindValue)
        found == find(m, m.data, key)
    IN  IF m.st # "ok" THEN m
        ELSE IF ~m.debug THEN Return(m, m.ret.key_added)
        ELSE IF ~g.ok THEN Die(m)
        ELSE IF ~hash_equal(actual_entry, hash) THEN Die(m)
        ELSE IF is_empty(actual_entry) THEN Die(m)
        ELSE IF ~k.ok \/ k.v # key THEN Die(m)
        ELSE IF ~v.ok \/ v.v # value THEN Die(m)
        ELSE IF found.st # "ok" THEN found
        ELSE IF found.ret # Some(value) THEN Die(m)
        ELSE Return(sanity_check_entry(m, m.data, entry_index), m.ret.key_added)

\* insert from `let table_size = ..` on; m1 is the machine after the resize,
\* if there was one
InsertIntoTable(m1, key, value) ==
    LET table_size == entry_array_len(m1, m1.data)
        hash == hash_for(m1, key)
    IN  IF m1.st # "ok" THEN m1
        ELSE IF table_size = 0 THEN Die(m1)
        ELSE InsertChecks(InsertLoop(m1, key, value, hash, table_size,
                                     index_in_table(hash, table_size), 0),
                          key, value, hash)

insert(m, key, value) ==
    LET initial_capacity == RawTable_capacity(m, m.data)
        new_capacity == IF initial_capacity = 0 THEN 8
                        ELSE (initial_capacity * 3) \div 2
    IN  IF m.st # "ok" THEN m
        ELSE InsertIntoTable(IF RawTable_len(m, m.data) >= initial_capacity
                             THEN resize(DebugAssert(m, new_capacity > 0), new_capacity)
                             ELSE m,
                             key, value)

(***************************************************************************)
(* RawTable::remove_entry and the backward shift that follows it           *)
(***************************************************************************)
\* assert_is_valid_entry_for_table holds debug assertions only
assert_is_valid_entry_for_table(m, table_data, entry) ==
    LET entry_array_start == table_data.addr + HEADER_SIZE
        last_valid_entry_addr ==
            entry_array_start + ENTRY_SIZE * (entry_array_len(m, table_data) - 1)
        m1 == DebugAssert(m, entry.addr >= entry_array_start
                             /\ entry.addr <= last_valid_entry_addr)
    IN  DebugAssert(m1, (entry.addr - entry_array_start) % ENTRY_SIZE = 0)

move_entry(m, table_data, target_entry_index, src_entry) ==
    LET m1 == assert_is_valid_entry_for_table(m, table_data, src_entry)
        g == get_entry(m1, table_data, target_entry_index)
        target_entry == g.v
        m2 == DebugAssert(m1, is_empty(target_entry))
        m3 == DebugAssert(m2, ~is_empty(src_entry))
        m4 == Memory_copy_nonoverlapping(m3, src_entry.addr, target_entry.addr,
                                         ENTRY_SIZE)
    IN  IF m1.st # "ok" THEN m1
        ELSE IF ~g.ok THEN Die(m1)
        ELSE fill_zero(m4, src_entry.addr, ENTRY_SIZE)

\* repair_block_after_deletion: RepairLoop is its loop, which calls the
\* function again after a move
RECURSIVE RepairLoop(_, _, _, _, _)
RECURSIVE repair_block_after_deletion(_, _, _)
RepairLoop(m, table_data, table_size, deletion_index, search_index) ==
    LET g == get_entry(m, table_data, search_index)
        search_entry == g.v
        min_entry_index == index_in_table(Entry_hash(search_entry), table_size)
        moves == IF search_index > min_entry_index
                 THEN deletion_index >= min_entry_index /\ deletion_index < search_index
                 ELSE IF search_index < min_entry_index
                 THEN deletion_index >= min_entry_index \/ deletion_index < search_index
                 ELSE FALSE
    IN  IF m.st # "ok" THEN m
        ELSE IF ~g.ok THEN Die(m)
        ELSE IF is_empty(search_entry) THEN m
        ELSE IF moves
        THEN repair_block_after_deletion(
                 move_entry(m, table_data, deletion_index, search_entry),
                 table_data, search_index)
        ELSE RepairLoop(m, table_data, table_size, deletion_index,
                        advance_index(search_index, table_size))

repair_block_after_deletion(m, table_data, deletion_index) ==
    LET table_size == entry_array_len(m, table_data)
    IN  IF m.st # "ok" THEN m
        ELSE RepairLoop(m, table_data, table_size, deletion_index,
                        advance_index(deletion_index, table_size))

\* remove_entry: the len update that follows the repair
DecrementLen(m, table_data) ==
    LET old_len == RawTable_len(m, table_data)
    IN  IF m.st # "ok" THEN m ELSE set_len(m, table_data, old_len - 1)

\* what remove_entry does with the entry that holds the key
RemoveFound(m, table_data, entry, index) ==
    Return(DecrementLen(repair_block_after_deletion(clear(m, entry), table_data, index),
                        table_data),
           TRUE)

RECURSIVE RemoveLoop(_, _, _, _, _, _, _)
RemoveLoop(m, table_data, key, hash, table_size, index, steps) ==
    LET g == get_entry(m, table_data, index)
        entry == g.v
        k == entry_data(m, entry, DataKindKey)
        next == advance_index(index, table_size)
    IN  IF steps >= table_size THEN Hang(m)
        ELSE IF ~g.ok THEN Die(m)
        ELSE IF is_empty(entry) THEN Return(m, FALSE)
        ELSE IF ~hash_equal(entry, hash)
        THEN RemoveLoop(m, table_data, key, hash, table_size, next, steps + 1)
        ELSE IF ~k.ok THEN Die(m)
        ELSE IF k.v # key
        THEN RemoveLoop(m, table_data, key, hash, table_size, next, steps + 1)
        ELSE RemoveFound(m, table_data, entry, index)

remove_entry(m, table_data, key) ==
    LET table_size == entry_array_len(m, table_data)
        hash == hash_for(m, key)
    IN  IF m.st # "ok" THEN m
        ELSE IF RawTable_len(m, table_data) = 0 THEN Return(m, FALSE)
        ELSE IF table_size = 0 THEN Die(m)
        ELSE RemoveLoop(m, table_data, key, hash, table_size,
                        index_in_table(hash, table_size), 0)

(***************************************************************************)
(* RawTable::iter and delete_table                                         *)
(***************************************************************************)
\* ret = the calls f(key, value) made so far, in order
RECURSIVE IterLoop(_, _, _, _, _)
IterLoop(m, table_data, table_size, index, visited) ==
    LET g == get_entry(m, table_data, index)
        entry == g.v
        k == entry_data(m, entry, DataKindKey)
        v == entry_data(m, entry, DataKindValue)
    IN  IF index >= table_size THEN Return(m, visited)
        ELSE IF ~g.ok THEN Die(m)
        ELSE IF is_empty(entry)
        THEN IterLoop(m, table_data, table_size, index + 1, visited)
        ELSE IF ~k.ok \/ ~v.ok THEN Die(m)
        ELSE IterLoop(m, table_data, table_size, index + 1,
                      Append(visited, <<k.v, v.v>>))

iter(m, table_data) ==
    IF m.st # "ok" THEN m
    ELSE IterLoop(m, table_data, entry_array_len(m, table_data), 0, <<>>)

RECURSIVE DeleteTableLoop(_, _, _, _)
DeleteTableLoop(m, table_data, table_size, entry_index) ==
    LET g == get_entry(m, table_data, entry_index)
    IN  IF m.st # "ok" \/ entry_index >= table_size THEN m
        ELSE IF ~g.ok THEN Die(m)
        ELSE DeleteTableLoop(IF is_empty(g.v) THEN m ELSE clear(m, g.v),
                             table_data, table_size, entry_index + 1)

delete_table(m, table_data) ==
    Memory_free(DeleteTableLoop(m, table_data, entry_array_len(m, table_data), 0),
                table_data)

(***************************************************************************)
(* HashTable in an arena: a program that creates the arena as the tests    *)
(* do (tests::create_memory), then creates a table and calls insert,       *)
(* remove, find, iter and delete_table with any arguments.                 *)
(***************************************************************************)
\* size of the arena
ArenaSize == 256
\* with_capacity is called with 0..MaxCapacity (0 is HashTable::new)
MaxCapacity == 2
\* a run makes at most MaxCalls calls that write to the arena
MaxCalls == 5

\* keys: two stored inline, one longer than MAX_INLINE_KEY_LEN
Keys == {<<1>>, <<2, 2>>, <<3, 3, 3, 3, 3>>}
\* values: one stored inline, one longer than MAX_INLINE_VALUE_LEN
Values == {<<7>>, <<8, 8, 8, 8, 8>>}

\* values of hash_for on the keys: all equal; equal in the low 46 bits only
\* and a third with the same slot in a table of 3 slots; all different
HashChoices ==
    {[k \in Keys |-> {1}],
     (<<1>> :> {1, 46}) @@ (<<2, 2>> :> {1}) @@ (<<3, 3, 3, 3, 3>> :> {0, 2}),
     (<<1>> :> {}) @@ (<<2, 2>> :> {0}) @@ (<<3, 3, 3, 3, 3>> :> {1})}

Scenario(debug, arena, hashes, values, capacities, max_calls) ==
    [debug_assertions |-> debug, arena |-> arena, hashes |-> hashes,
     values |-> values, capacities |-> capacities, max_calls |-> max_calls]

\* programs with room in the arena for every table and payload they create
Roomy ==
    {Scenario(debug, ArenaSize, hashes, Values, 0..MaxCapacity, MaxCalls) :
        debug \in BOOLEAN, hashes \in HashChoices}

\* a small arena that a table of capacity 1 and one long value fill to its
\* last byte
TightArenaSize == 81
MaxCallsTight == 8
LongValueLen == 45
\* a value of LongValueLen bytes, all 0 but byte 42, which is 2
LongValue == [i \in 1..LongValueLen |-> IF i = 42 THEN 2 ELSE 0]
TightValues == {<<7>>, <<9, 9, 9, 9, 9>>, LongValue}

Tight ==
    {Scenario(debug, TightArenaSize, (<<1>> :> {0}), TightValues, {1}, MaxCallsTight) :
        debug \in BOOLEAN}

\* programs whose keys and values have lengths just below, at and just above
\* MAX_INLINE_KEY_LEN and MAX_INLINE_VALUE_LEN
BoundaryHashes == (<<4, 4, 4, 4>> :> {0}) @@ (<<5, 5, 5, 5, 5>> :> {1})
BoundaryValues == {<<>>, <<6, 6, 6, 6>>, <<8, 8, 8, 8, 8>>}

Boundary ==
    {Scenario(debug, ArenaSize, BoundaryHashes, BoundaryValues, {MaxCapacity}, MaxCalls) :
        debug \in BOOLEAN}

\* the longest payload set_entry_data takes
MaxPayloadLen == 255
\* an arena with room for a table and four payloads of MaxPayloadLen bytes
LargeArenaSize == 1100
MaxCallsLarge == 3
\* a payload of n bytes
Filled(n) == [i \in 1..n |-> 3]
Largest == Filled(MaxPayloadLen)
Oversize == Filled(MaxPayloadLen + 1)
LargeHashes == (<<1>> :> {0}) @@ (Largest :> {1}) @@ (Oversize :> {0, 1})
LargeValues == {<<7>>, Largest, Oversize}

\* programs whose keys and values have MaxPayloadLen bytes and one byte more
Large ==
    {Scenario(debug, LargeArenaSize, LargeHashes, LargeValues, {MaxCapacity},
              MaxCallsLarge) : debug \in BOOLEAN}

Machine(pick) ==
    [storage |-> storage, allocator |-> allocator, data |-> table.data,
     st |-> "ok", ret |-> NoAllocation, pick |-> pick,
     debug |-> setup.debug_assertions, hashes |-> setup.hashes]

\* Memory::new(MemStore::new(size)) with no allocation reserving address 0
MemoryUnreserved(size) ==
    [storage |-> MemStore_new(size), allocator |-> new(size),
     data |-> NoAllocation, st |-> "ok", ret |-> NoAllocation,
     pick |-> 0, debug |-> FALSE, hashes |-> <<>>]

\* Memory::new(MemStore::new(size)) followed by memory.alloc(Size(1))
create_memory(size) ==
    Memory_alloc([storage |-> MemStore_new(size), allocator |-> new(size),
                  data |-> NoAllocation, st |-> "ok", ret |-> NoAllocation,
                  pick |-> 0, debug |-> FALSE, hashes |-> <<>>], 1)

\* last: the last call that changed the table or ended the program
Call(op, key, ret) == [op |-> op, key |-> key, ret |-> ret]

\* the state a call leaves behind
Leaves(m, alive, data, ref, call) ==
    /\ storage' = m.storage
    /\ allocator' = m.allocator
    /\ status' = m.st
    /\ table' = IF m.st = "ok" THEN [alive |-> alive, data |-> data] ELSE table
    /\ reference' = IF m.st = "ok" THEN ref ELSE reference
    /\ last' = call
    /\ calls' = calls + 1
    /\ UNCHANGED setup

\* find and iter write nothing: they are seen only when they end the program
Query(m, op, key) ==
    /\ status' = m.st
    /\ last' = IF m.st = "ok" THEN last ELSE Call(op, key, FALSE)
    /\ UNCHANGED <<storage, allocator, table, reference, setup, calls>>

Init ==
    /\ setup \in Roomy \cup Tight \cup Boundary \cup Large
    /\ \E m \in {create_memory(setup.arena)} :
           storage = m.storage /\ allocator = m.allocator
    /\ status = "ok"
    /\ table = [alive |-> FALSE, data |-> NoAllocation]
    /\ reference = <<>>
    /\ last = Call("none", <<>>, FALSE)
    /\ calls = 0

WithCapacity ==
    /\ status = "ok" /\ ~table.alive /\ calls < setup.max_calls
    /\ \E capacity \in setup.capacities, pick \in Picks :
         \E m \in {alloc_with_capacity(Machine(pick), capacity)} :
             Leaves(m, TRUE, m.ret, <<>>, Call("with_capacity", <<>>, TRUE))

Insert ==
    /\ status = "ok" /\ table.alive /\ calls < setup.max_calls
    /\ \E key \in DOMAIN setup.hashes, value \in setup.values, pick \in Picks :
         \E m \in {insert(Machine(pick), key, value)} :
             Leaves(m, TRUE, m.data,
                    (key :> value) @@ reference,
                    Call("insert", key, m.st = "ok" /\ m.ret))

Remove ==
    /\ status = "ok" /\ table.alive /\ calls < setup.max_calls
    /\ \E key \in DOMAIN setup.hashes, pick \in Picks :
         \E m \in {remove_entry(Machine(pick), table.data, key)} :
             Leaves(m, TRUE, table.data,
                    [k \in DOMAIN reference \ {key} |-> reference[k]],
                    Call("remove", key, m.st = "ok" /\ m.ret))

Find ==
    /\ status = "ok" /\ table.alive
    /\ \E key \in DOMAIN setup.hashes :
         \E m \in {find(Machine(0), table.data, key)} :
             Query(m, "find", key)

Iter ==
    /\ status = "ok" /\ table.alive
    /\ \E m \in {iter(Machine(0), table.data)} :
           Query(m, "iter", <<>>)

DeleteTable ==
    /\ status = "ok" /\ table.alive /\ calls < setup.max_calls
    /\ \E pick \in Picks :
         \E m \in {delete_table(Machine(pick), table.data)} :
             Leaves(m, FALSE, NoAllocation, <<>>, Call("delete_table", <<>>, m.st = "ok"))

Next == WithCapacity \/ Insert \/ Remove \/ Find \/ Iter \/ DeleteTable

Spec == Init /\ [][Next]_vars

(***************************************************************************)
(* The arena used directly: a program that, after create_memory, calls     *)
(* Memory::alloc, fills what it got through get_bytes_mut, and calls       *)
(* Memory::free on allocations it holds.                                   *)
(***************************************************************************)
\* an arena that the reservation and allocations of 12, 28 and 12 bytes fill
DirectArenaSize == 53
MaxDirectCalls == 6
\* the sizes of a table of capacity 0 (12 bytes), of a table of capacity 1
\* (28 bytes), and one between
DirectSizes == {12, 16, 28}
\* memory.get_bytes_mut(allocation.addr, allocation.size) filled with 255
FillAllocation(m) ==
    IF m.st # "ok" THEN m
    ELSE put_bytes(m, m.ret.addr, [i \in 1..m.ret.size |-> 255])

InitDirect ==
    /\ setup \in {Scenario(debug, DirectArenaSize, <<>>, {}, {}, MaxDirectCalls) :
                      debug \in BOOLEAN}
    /\ \E m \in {create_memory(setup.arena)} :
           storage = m.storage /\ allocator = m.allocator
    /\ status = "ok"
    /\ table = [alive |-> FALSE, data |-> NoAllocation]
    /\ reference = <<>>
    /\ last = Call("none", <<>>, FALSE)
    /\ calls = 0

MemoryAlloc ==
    /\ status = "ok" /\ calls < setup.max_calls
    /\ \E size \in DirectSizes, pick \in Picks :
         \E m \in {FillAllocation(Memory_alloc(Machine(pick), size))} :
             Leaves(m, FALSE, NoAllocation, <<>>, Call("alloc", <<>>, m.st = "ok"))

\* the reservation of address 0 is never freed
MemoryFree ==
    /\ status = "ok" /\ calls < setup.max_calls
    /\ \E i \in Indices(allocator.allocations) \ {0}, pick \in Picks :
         \E m \in {Memory_free(Machine(pick), At(allocator.allocations, i))} :
             Leaves(m, FALSE, NoAllocation, <<>>, Call("free", <<>>, m.st = "ok"))

NextDirect == MemoryAlloc \/ MemoryFree

SpecDirect == InitDirect /\ [][NextDirect]_vars

(***************************************************************************)
(* record.rs: the record table.  The handle self.data is m.data.           *)
(***************************************************************************)
EMPTY_RECORD_ADDRESS == 0
PENDING_RECORD_ADDRESS == 0

ITEM_COUNT_OFFSET == 0
ARRAY_LEN_OFFSET == 4
FIRST_FREE_OFFSET == 8
ARRAY_OFFSET == 12
\* mem::size_of::<Record>(): three u32 fields
RECORD_SIZE == 12
FREE_PTR_OFFSET_WITHIN_RECORD == 4

Record(addr, size, ref_count) == [addr |-> addr, size |-> size, ref_count |-> ref_count]

\* Serialize and Deserialize for Record: addr, size, ref_count as u32
Record_write_at(m, record, addr) ==
    put_bytes(m, addr, u32_to_bytes(record.addr) \o u32_to_bytes(record.size)
                           \o u32_to_bytes(record.ref_count))
Record_read_at(m, addr) ==
    Record(read_u32(m, addr), read_u32(m, addr + 4), read_u32(m, addr + 8))

item_count(m) == read_u32(m, m.data.addr + ITEM_COUNT_OFFSET)
array_len(m) == read_u32(m, m.data.addr + ARRAY_LEN_OFFSET)
first_free(m) == read_u32(m, m.data.addr + FIRST_FREE_OFFSET)

\* the assert of record_addr, get_record and set_record on the id, and the
\* assert of MemStore on the slice of the record
ValidId(m, id) ==
    /\ id > 0 /\ id < array_len(m)
    /\ InStore(m, m.data.addr + ARRAY_OFFSET + RECORD_SIZE * id, RECORD_SIZE)
record_addr(m, id) == m.data.addr + ARRAY_OFFSET + RECORD_SIZE * id

get_record(m, id) ==
    IF m.st # "ok" THEN m
    ELSE IF ~ValidId(m, id) THEN Die(m)
    ELSE IF Record_read_at(m, record_addr(m, id)).addr = EMPTY_RECORD_ADDRESS THEN Die(m)
    ELSE IF Record_read_at(m, record_addr(m, id)).addr = PENDING_RECORD_ADDRESS THEN Die(m)
    ELSE Return(m, Record_read_at(m, record_addr(m, id)))

set_record(m, id, record) ==
    IF m.st # "ok" THEN m
    ELSE IF ~ValidId(m, id) THEN Die(m)
    ELSE IF read_u32(m, record_addr(m, id)) = EMPTY_RECORD_ADDRESS THEN Die(m)
    ELSE Record_write_at(m, record, record_addr(m, id))

\* the loop of RecordTableMut::alloc over records[index ..]
RECURSIVE SetRecords(_, _, _)
SetRecords(m, records, index) ==
    IF m.st # "ok" \/ index >= Len(records) THEN m
    ELSE SetRecords(set_record(m, index + 1, At(records, index)), records, index + 1)

\* RecordTableMut::alloc after storage.alloc(table_byte_size), which left m1
WriteRecordHeader(m1, records) ==
    IF m1.st # "ok" THEN m1
    ELSE SetRecords(
             write_u32(write_u32(write_u32([m1 EXCEPT !.data = m1.ret],
                                           m1.ret.addr + ITEM_COUNT_OFFSET, Len(records)),
                                 m1.ret.addr + ARRAY_LEN_OFFSET, Len(records) + 1),
                       m1.ret.addr + FIRST_FREE_OFFSET, 0),
             records, 0)

RecordTableMut_alloc(m, records) ==
    WriteRecordHeader(Memory_alloc(m, ARRAY_OFFSET + (Len(records) + 1) * RECORD_SIZE),
                      records)

record_table_alloc_size_for(record_count) == ARRAY_OFFSET + RECORD_SIZE * (record_count + 1)

\* iter_free: the ids of the chain that starts at free_ptr, in the order
\* the closure sees them; st = "panic" when record_addr fails on one of
\* them, "hang" when the chain comes back to an id (the loop never ends)
RECURSIVE FreeChain(_, _, _)
FreeChain(m, free_ptr, seen) ==
    IF free_ptr = 0 THEN [st |-> "ok", v |-> seen]
    ELSE IF ~ValidId(m, free_ptr) THEN [st |-> "panic", v |-> seen]
    ELSE IF \E i \in 1..Len(seen) : seen[i] = free_ptr THEN [st |-> "hang", v |-> seen]
    ELSE FreeChain(m, read_u32(m, record_addr(m, free_ptr) + FREE_PTR_OFFSET_WITHIN_RECORD),
                   Append(seen, free_ptr))

iter_free(m) == FreeChain(m, first_free(m), <<>>)

\* all_free: the ids of the chain (the code sorts them)
all_free(m) == {iter_free(m).v[i] : i \in 1..Len(iter_free(m).v)}

\* alloc_record, the loop over free_record in old_array_len .. new_array_len
RECURSIVE ChainFree(_, _, _, _, _)
ChainFree(m, new_alloc, free_ptr, free_record, new_array_len) ==
    IF m.st # "ok" \/ free_record >= new_array_len THEN m
    ELSE ChainFree(write_u32(m, free_ptr, free_record), new_alloc,
                   new_alloc.addr + ARRAY_OFFSET + RECORD_SIZE * free_record
                       + FREE_PTR_OFFSET_WITHIN_RECORD,
                   free_record + 1, new_array_len)

\* alloc_record, the block under cfg(debug_assertions) after the growth
GrowthChecked(m, count, old_array_len, new_array_len) ==
    IF m.st # "ok" \/ ~m.debug THEN m
    ELSE IF item_count(m) # count THEN Die(m)
    ELSE IF iter_free(m).st = "hang" THEN Hang(m)
    ELSE IF iter_free(m).st = "panic" THEN Die(m)
    ELSE Require(m, iter_free(m).v =
                        [i \in 1..(new_array_len - old_array_len) |-> old_array_len + i - 1])

\* alloc_record, the growth after self.storage.alloc(..), which left m1
GrowInto(m1, old, count, old_array_len, new_array_len) ==
    IF m1.st # "ok" THEN m1
    ELSE GrowthChecked(
             [Memory_free(
                  ChainFree(
                      write_u32(
                          fill_zero(
                              Memory_copy_nonoverlapping(m1, old.addr, m1.ret.addr, old.size),
                              m1.ret.addr + old.size, m1.ret.size - old.size),
                          m1.ret.addr + ARRAY_LEN_OFFSET, new_array_len),
                      m1.ret, m1.ret.addr + FIRST_FREE_OFFSET, old_array_len, new_array_len),
                  old) EXCEPT !.data = m1.ret],
             count, old_array_len, new_array_len)

NewMaxItemCount(count) == IF count = 0 THEN 8 ELSE count * 2

\* alloc_record: "Expand size if necessary"
Expand(m) ==
    IF m.st # "ok" \/ first_free(m) # 0 THEN m
    ELSE IF m.debug /\ array_len(m) # item_count(m) + 1 THEN Die(m)
    ELSE GrowInto(Memory_alloc(m, record_table_alloc_size_for(NewMaxItemCount(item_count(m)))),
                  m.data, item_count(m), array_len(m), NewMaxItemCount(item_count(m)) + 1)

\* alloc_record after the free id was read: first_free moves on, the record
\* becomes pending, the count grows
TakeId(m, free_id) ==
    Return(write_u32(
               write_u32(
                   write_u32(m, m.data.addr + FIRST_FREE_OFFSET,
                             read_u32(m, record_addr(m, free_id) + FREE_PTR_OFFSET_WITHIN_RECORD)),
                   record_addr(m, free_id), PENDING_RECORD_ADDRESS),
               m.data.addr + ITEM_COUNT_OFFSET, item_count(m) + 1),
           free_id)

TakeFirstFree(m) ==
    IF m.st # "ok" THEN m
    ELSE IF first_free(m) = 0 THEN Die(m)
    ELSE IF ~ValidId(m, first_free(m)) THEN Die(m)
    ELSE IF read_u32(m, record_addr(m, first_free(m))) # 0 THEN Die(m)
    ELSE TakeId(m, first_free(m))

alloc_record(m) == TakeFirstFree(Expand(m))

\* item_count - Size(1) as the four bytes written: the u32 wraps in a build
\* without overflow checks
CountLess1(count) == IF count = 0 THEN <<255, 255, 255, 255>> ELSE u32_to_bytes(count - 1)

\* delete_record after its asserts on the record read: the record is zeroed
\* and becomes the head of the free chain
Unlink(m, record_id, count) ==
    put_bytes(
        write_u32(
            write_u32(fill_zero(m, record_addr(m, record_id), RECORD_SIZE),
                      record_addr(m, record_id) + FREE_PTR_OFFSET_WITHIN_RECORD, first_free(m)),
            m.data.addr + FIRST_FREE_OFFSET, record_id),
        m.data.addr + ITEM_COUNT_OFFSET, count)

\* delete_record, the last block under cfg(debug_assertions)
FoundFree(m, record_id, deleted_record) ==
    IF m.st # "ok" THEN m
    ELSE IF ~m.debug THEN Return(m, deleted_record)
    ELSE IF iter_free(m).st = "hang" THEN Hang(m)
    ELSE IF iter_free(m).st = "panic" \/ record_id \notin all_free(m) THEN Die(m)
    ELSE Return(m, deleted_record)

delete_record(m, record_id) ==
    IF m.st # "ok" THEN m
    ELSE IF m.debug /\ record_id \in all_free(m) THEN Die(m)
    ELSE IF m.debug /\ iter_free(m).st = "hang" THEN Hang(m)
    ELSE IF m.debug /\ iter_free(m).st = "panic" THEN Die(m)
    ELSE IF ~ValidId(m, record_id) THEN Die(m)
    ELSE IF Record_read_at(m, record_addr(m, record_id)).addr = EMPTY_RECORD_ADDRESS THEN Die(m)
    ELSE IF Record_read_at(m, record_addr(m, record_id)).addr = PENDING_RECORD_ADDRESS THEN Die(m)
    ELSE IF item_count(m) = 0 /\ m.debug THEN Die(m)
    ELSE FoundFree(Unlink(m, record_id, CountLess1(item_count(m))), record_id,
                   Record_read_at(m, record_addr(m, record_id)))

(***************************************************************************)
(* The ideal slot of a key: computed from the hash of the key, as insert,  *)
(* find and remove_entry do, and from the hash kept in the metadata of the *)
(* entry, as resize, repair_block_after_deletion and sanity_check_entry do *)
(***************************************************************************)
\* the bits a hash may have set: the lowest, those around bit 32, where the
\* cast to u32 cuts, those around bit 46, where the metadata cuts, the highest
HashBits == {0, 1, 2, 31, 32, 45, 46, 63}
\* tables have 1..MaxSlots entry slots
MaxSlots == 12

InitSlot ==
    /\ last \in [op : {"hash"}, hash : SUBSET HashBits, table_size : 1..MaxSlots,
                  slot : {0}, entry : {Entry({}, 0)}, recomputed : {0}]
    /\ allocator = new(1) /\ storage = <<>> /\ status = "ok"
    /\ table = [alive |-> FALSE, data |-> NoAllocation]
    /\ setup = [debug_assertions |-> FALSE, arena |-> 1]
    /\ reference = <<>>
    /\ calls = 0

\* insert: index_in_table(hash, table_size), then init_non_empty(hash) on the
\* entry; set_entry_data may set any of the bits 46..61 afterwards
StoreHash ==
    /\ last.op = "hash"
    /\ \E others \in {{}, 46..61} :
           last' = [last EXCEPT
                      !.op = "stored",
                      !.slot = index_in_table(last.hash, last.table_size),
                      !.entry = Entry(BitOr(BitOr(BitAnd(last.hash, ENTRY_META_HASH_MASK),
                                                  ENTRY_META_IS_EMPTY_BIT), others), 0)]
    /\ UNCHANGED <<allocator, storage, status, table, setup, reference, calls>>

\* resize, repair and the self-check: index_in_table(entry.hash(), table_size)
RecomputeSlot ==
    /\ last.op = "stored"
    /\ last' = [last EXCEPT
                   !.op = "recomputed",
                   !.recomputed = index_in_table(Entry_hash(last.entry), last.table_size)]
    /\ UNCHANGED <<allocator, storage, status, table, setup, reference, calls>>

NextSlot == StoreHash \/ RecomputeSlot

SpecSlot == InitSlot /\ [][NextSlot]_vars

(***************************************************************************)
(* The record table as a program: an arena from create_storage, one table  *)
(* made by RecordTableMut::alloc, then calls on it.  reference maps the    *)
(* ids written by set_record to the records written.                       *)
(***************************************************************************)
RecordArenaSize == 150
MaxRecordCalls == 4
MaxRecordId == 9

\* records with an address that is neither EMPTY nor PENDING
Records == {Record(1010, 23, 3), Record(76, 23, 8)}
RecordLists == {<<>>} \cup {<<r>> : r \in Records}
                    \cup {<<r1, r2>> : r1 \in Records, r2 \in Records}
RecordIds == 0..MaxRecordId

InitRecord ==
    /\ setup \in {Scenario(debug, RecordArenaSize, <<>>, {}, {}, MaxRecordCalls) :
                      debug \in BOOLEAN}
    /\ \E m \in {create_memory(setup.arena)} :
           storage = m.storage /\ allocator = m.allocator
    /\ status = "ok"
    /\ table = [alive |-> FALSE, data |-> NoAllocation]
    /\ reference = <<>>
    /\ last = Call("create_storage", <<>>, TRUE)
    /\ calls = 0

RecordTableAlloc ==
    /\ status = "ok" /\ ~table.alive /\ calls < setup.max_calls
    /\ \E records \in RecordLists, pick \in Picks :
         \E m \in {RecordTableMut_alloc(Machine(pick), records)} :
             Leaves(m, TRUE, m.data, records, Call("alloc", <<Len(records)>>, m.st = "ok"))

AllocRecord ==
    /\ status = "ok" /\ table.alive /\ calls < setup.max_calls
    /\ \E pick \in Picks :
         \E m \in {alloc_record(Machine(pick))} :
             Leaves(m, TRUE, m.data, reference, Call("alloc_record", IF m.st = "ok" THEN <<m.ret>> ELSE <<>>,
                         m.st = "ok"))

SetRecord ==
    /\ status = "ok" /\ table.alive /\ calls < setup.max_calls
    /\ \E id \in RecordIds, record \in Records :
         \E m \in {set_record(Machine(0), id, record)} :
             Leaves(m, TRUE, m.data, (id :> record) @@ reference,
                    Call("set_record", <<id>>, m.st = "ok"))

GetRecord ==
    /\ status = "ok" /\ table.alive /\ calls < setup.max_calls
    /\ \E id \in RecordIds :
         \E m \in {get_record(Machine(0), id)} :
             Leaves(m, TRUE, m.data, reference, Call("get_record", <<id>>, m.st = "ok"))

DeleteRecord ==
    /\ status = "ok" /\ table.alive /\ calls < setup.max_calls
    /\ \E id \in RecordIds :
         \E m \in {delete_record(Machine(0), id)} :
             Leaves(m, TRUE, m.data,
                    [i \in DOMAIN reference \ {id} |-> reference[i]],
                    Call("delete_record", <<id>>, m.st = "ok"))

NextRecord ==
    \/ RecordTableAlloc
    \/ AllocRecord
    \/ SetRecord
    \/ GetRecord
    \/ DeleteRecord

SpecRecord == InitRecord /\ [][NextRecord]_vars

(***************************************************************************)
(* Properties of the hash table                                            *)
(***************************************************************************)
\* the program's state as the next call finds it
Now == Machine(0)

\* number of slots of the live table, and its occupied slots
TableSize == entry_array_len(Now, table.data)
SlotEntry(i) == get_entry(Now, table.data, i)
Occupied == {i \in 0..(TableSize - 1) : SlotEntry(i).ok /\ ~is_empty(SlotEntry(i).v)}

\* the slot the stored hash of the entry in slot i maps to
IdealSlot(i) == index_in_table(Entry_hash(SlotEntry(i).v), TableSize)

\* the slots from `from` up to but excluding `to`, walking forward cyclically
Arc(from, to, n) == {(from + d) % n : d \in 0..(((to - from + n) % n) - 1)}

\* what the reference map returns for a key
ReferenceGet(ref, key) == IF key \in DOMAIN ref THEN Some(ref[key]) ELSE None

\* the pairs of the reference map
ReferencePairs(ref) == {<<k, ref[k]>> : k \in DOMAIN ref}

\* the pairs iter visited, and how often it visited a pair
Visited(m) == {m.ret[i] : i \in 1..Len(m.ret)}
Visits(m, pair) == Cardinality({i \in 1..Len(m.ret) : m.ret[i] = pair})

TableRuns == status = "ok" /\ table.alive

\* C2: in every state a HashTable call leaves, every occupied slot i is
\* reachable by a linear probe from its ideal slot: no slot on the cyclic arc
\* from ideal(i) up to i is empty.
C2_ProbeInvariant ==
    TableRuns =>
        \A i \in Occupied : \A j \in Arc(IdealSlot(i), i, TableSize) : j \in Occupied

\* C3: after any sequence of calls, find(k) returns for every key what the
\* reference map holds for it (Some(value) or None).
C3_FindMatchesReference ==
    TableRuns =>
        \A key \in DOMAIN setup.hashes :
            LET m == find(Now, table.data, key)
            IN  m.st = "ok" /\ m.ret = ReferenceGet(reference, key)

\* C8: in every state a HashTable call leaves, the len field of the header
\* equals the number of occupied slots.
C8_LenCountsOccupied ==
    TableRuns => RawTable_len(Now, table.data) = Cardinality(Occupied)

\* C9: iter visits exactly the pairs of the reference map, each pair once.
C9_IterVisitsReference ==
    TableRuns =>
        LET m == iter(Now, table.data)
        IN  /\ m.st = "ok"
            /\ Visited(m) = ReferencePairs(reference)
            /\ \A pair \in Visited(m) : Visits(m, pair) = 1

\* C10: an insert(k, v) that returns gives true and raises len by one when k
\* was absent; when k was present it gives false, leaves len as it was, makes
\* find(k) return v and leaves the value of every other key as it was.
C10_InsertResult ==
    TableRuns =>
        \A key \in DOMAIN setup.hashes, value \in setup.values, pick \in Picks :
            LET before == iter(Now, table.data)
                m == insert(Machine(pick), key, value)
                after == iter(m, m.data)
                present == \E pair \in Visited(before) : pair[1] = key
                others(r) == {pair \in Visited(r) : pair[1] # key}
            IN  (before.st = "ok" /\ m.st = "ok") =>
                    /\ after.st = "ok"
                    /\ <<key, value>> \in Visited(after)
                    /\ others(after) = others(before)
                    /\ ~present =>
                          /\ m.ret = TRUE
                          /\ RawTable_len(m, m.data) = RawTable_len(Now, table.data) + 1
                    /\ present =>
                          /\ m.ret = FALSE
                          /\ RawTable_len(m, m.data) = RawTable_len(Now, table.data)

(***************************************************************************)
(* remove, the zeroing of freed memory, the ownership of payloads          *)
(***************************************************************************)
\* the key is one of the keys iter visits in r
Holds(r, key) == \E pair \in Visited(r) : pair[1] = key

\* what a remove(key) that left m must satisfy when the key was present (or not)
RemoveResult(m, key, present) ==
    /\ m.st = "ok"
    /\ m.ret = present
    /\ present =>
          /\ RawTable_len(m, m.data) = RawTable_len(Now, table.data) - 1
          /\ find(m, m.data, key).st = "ok"
          /\ find(m, m.data, key).ret = None

\* m1 is what insert of an absent key left, m2 what the remove after it left
InsertRemoveRestoresLen(m1, m2) ==
    (m1.st = "ok" /\ m1.ret = TRUE) =>
        /\ m2.st = "ok"
        /\ RawTable_len(m2, m2.data) = RawTable_len(Now, table.data)

\* C11: remove(k) returns true exactly when k is in the table; it then lowers
\* len by one and find(k) gives None; insert of an absent key followed by
\* remove of that key brings len back to its value before the insert.
C11_RemoveResult ==
    TableRuns =>
        \A key \in DOMAIN setup.hashes, pick \in Picks :
            iter(Now, table.data).st = "ok" =>
                /\ RemoveResult(remove_entry(Machine(pick), table.data, key), key,
                                Holds(iter(Now, table.data), key))
                /\ ~Holds(iter(Now, table.data), key) =>
                      \A value \in setup.values :
                          InsertRemoveRestoresLen(
                              insert(Machine(pick), key, value),
                              remove_entry(insert(Machine(pick), key, value),
                                           insert(Machine(pick), key, value).data, key))

\* the addresses of block b whose byte in the storage is not zero
NonZeroBytes(b) == {x \in Bytes(b) : x < Len(storage) /\ At(storage, x) # 0}

\* C12: Memory::free zeroes the range it frees, so in every state of a running
\* program every byte of every free block is zero.
C12_FreeBlocksAreZero ==
    status = "ok" => \A b \in FreeBlocks(allocator) : NonZeroBytes(b) = {}

\* the key and value fields of the occupied slots, and those stored out of line
Fields == Occupied \X {DataKindKey, DataKindValue}
Spilled == {f \in Fields : ~is_entry_data_inline(SlotEntry(f[1]).v, f[2])}

\* the address a spilled field stores, and the allocation delete_entry_data
\* would free for it: the length prefix at that address plus one
OverflowAddr(f) == read_u32(Now, SlotEntry(f[1]).v.addr + f[2].offset_within_entry)
OverflowAllocation(f) ==
    Allocation(OverflowAddr(f),
               IF InStore(Now, OverflowAddr(f), 1)
               THEN get_bytes(Now, OverflowAddr(f), 1)[1] + 1 ELSE 0)

\* the allocation create_memory makes before the table exists
InitialReservation == Allocation(0, 1)

\* C13: while a table lives in the arena the live allocations are exactly the
\* initial reservation, the table and one overflow allocation for each
\* out-of-line key or value of an occupied slot.
C13_NoAllocationLeaks ==
    TableRuns =>
        /\ LiveAllocations(allocator) =
              {InitialReservation, table.data} \cup {OverflowAllocation(f) : f \in Spilled}
        /\ Len(allocator.allocations) = 2 + Cardinality(Spilled)

\* C14: between calls every out-of-line key or value of an occupied slot
\* stores the address of a live allocation whose size is the payload length
\* plus one, and no two such fields store the same address.
C14_OverflowOwnedOnce ==
    TableRuns =>
        /\ \A f \in Spilled : OverflowAllocation(f) \in LiveAllocations(allocator)
        /\ \A f \in Spilled, g \in Spilled : f # g => OverflowAddr(f) # OverflowAddr(g)

(***************************************************************************)
(* growth, load factor, termination                                        *)
(***************************************************************************)
\* the capacity the growth rule names for a table of capacity old: 8 for 0,
\* else old * 3 / 2 rounded up
GrownCapacity(old) == IF old = 0 THEN 8 ELSE (old * 3 + 1) \div 2

\* m is what an insert left that found len >= capacity
GrewTo(m, capacity) == m.st = "ok" => RawTable_capacity(m, m.data) = capacity

\* C15: an insert that finds len >= capacity leaves a table of capacity 8 when
\* the capacity was 0 and of capacity ceil(old * 3 / 2) otherwise.
C15_GrowthRule ==
    TableRuns =>
        \A key \in DOMAIN setup.hashes, value \in setup.values, pick \in Picks :
            RawTable_len(Now, table.data) >= RawTable_capacity(Now, table.data) =>
                GrewTo(insert(Machine(pick), key, value),
                       GrownCapacity(RawTable_capacity(Now, table.data)))

\* C16: in every state of a live table the load factor is at most 2/3:
\* 3 * len <= 2 * entry_array_len(capacity).
C16_LoadFactor ==
    TableRuns => 3 * RawTable_len(Now, table.data) <= 2 * TableSize

\* the call that left m came to an end (it returned or it panicked)
Terminated(m) == m.st # "hang"

\* C17: in every state of a live table each find, insert and remove ends:
\* no probe walk goes round the slots without meeting an empty slot or the key.
C17_CallsTerminate ==
    TableRuns =>
        \A key \in DOMAIN setup.hashes, pick \in Picks :
            /\ Terminated(find(Now, table.data, key))
            /\ Terminated(remove_entry(Machine(pick), table.data, key))
            /\ \A value \in setup.values : Terminated(insert(Machine(pick), key, value))

\* find left m: it returned None
FoundNothing(m) == m.st = "ok" /\ m.ret = None

\* C18: find on a table that holds no entry returns None without a panic,
\* also on the table of capacity 0 that HashTable::new creates.
C18_FindOnEmptyTable ==
    (TableRuns /\ Occupied = {}) =>
        \A key \in DOMAIN setup.hashes : FoundNothing(find(Now, table.data, key))

(***************************************************************************)
(* Properties of the borrow tracker                                        *)
(***************************************************************************)
\* the bytes of a borrowed range, and whether two ranges share a byte
RangeBytes(r) == r.start..(r.end - 1)
Overlap(r1, r2) == RangeBytes(r1) \cap RangeBytes(r2) # {}

LiveBorrows(a) == {At(a.live_mem_refs, i) : i \in Indices(a.live_mem_refs)}

\* the borrow r may not coexist with the live borrows of a: it shares a byte
\* with one of them and one of the two is mutable
Aliases(a, r) == \E l \in LiveBorrows(a) : Overlap(l, r) /\ (l.mutable \/ r.mutable)

\* the allocator a with no borrow alive
Unborrowed(a) == [a EXCEPT !.live_mem_refs = <<>>]

\* the outcome o of registering r in a is the one the aliasing rule asks for;
\* alone is the outcome of the same call with no other borrow alive
AliasingRule(a, r, o, alone) ==
    /\ Aliases(a, r) => ~o.ok
    /\ (~Aliases(a, r) /\ alone.ok) => o.ok

\* C19: no two live borrows share a byte unless both are immutable; a
\* register call is fatal when the new borrow shares a byte with a live borrow
\* and one of the two is mutable, and is accepted when it does not (and its
\* range is one the tracker accepts with no other borrow alive).
C19_BorrowAliasing ==
    status = "ok" =>
        /\ \A i \in Indices(allocator.live_mem_refs), j \in Indices(allocator.live_mem_refs) :
              (i # j /\ Overlap(At(allocator.live_mem_refs, i), At(allocator.live_mem_refs, j)))
                  => (~At(allocator.live_mem_refs, i).mutable
                      /\ ~At(allocator.live_mem_refs, j).mutable)
        /\ \A addr \in 0..allocator.total_size, len \in 0..MaxBorrowLen,
              mutable \in BOOLEAN, pick \in Picks :
              AliasingRule(allocator, LiveMemRef_new(addr, len, mutable),
                           register_mem_ref(allocator, addr, len, mutable, pick),
                           register_mem_ref(Unborrowed(allocator), addr, len, mutable, pick))

\* every byte of the range r lies in one live allocation of a
InsideLiveAllocation(a, r) ==
    \E l \in LiveAllocations(a) : RangeBytes(r) \subseteq Bytes(l)

\* C20: register_mem_ref is fatal for every range that is not entirely inside
\* one live allocation, hence for every range that reaches into an allocation
\* that was freed and not allocated again.
C20_BorrowOutsideIsFatal ==
    status = "ok" =>
        \A addr \in 0..allocator.total_size, len \in 0..MaxBorrowLen,
           mutable \in BOOLEAN, pick \in Picks :
            ~InsideLiveAllocation(allocator, LiveMemRef_new(addr, len, mutable))
                => ~register_mem_ref(allocator, addr, len, mutable, pick).ok

\* a borrow into freed memory was refused: the range lies in a free block
\* below a live allocation (only a free puts a free block there)
C20_Witness ==
    /\ status = "panic" /\ last.op = "register"
    /\ last.arg.end > last.arg.start
    /\ \E f \in FreeBlocks(allocator) :
          /\ RangeBytes(last.arg) \subseteq Bytes(f)
          /\ \E l \in LiveAllocations(allocator) : start(l) >= end(f)

(***************************************************************************)
(* Allocator: fatal frees, best fit, the order of the free views           *)
(***************************************************************************)
\* C21: free(x) is fatal whenever x is not exactly an (addr, size) pair of
\* allocations: an address never allocated, an allocation already freed, or a
\* live address with another size.
C21_ForeignFreeIsFatal ==
    status = "ok" =>
        \A addr \in 0..allocator.total_size, size \in 0..MaxAllocSize, pick \in Picks :
            Allocation(addr, size) \notin LiveAllocations(allocator)
                => ~free(allocator, Allocation(addr, size), pick).ok

\* a free was refused whose argument is a block freed before and not merged
\* away (double free), with an allocation still live
C21_Witness ==
    /\ status = "panic" /\ last.op = "free"
    /\ last.arg \in FreeBlocks(allocator)
    /\ allocator.allocations # <<>>

\* a free was refused whose address is live with another size
C21_WitnessWrongSize ==
    /\ status = "panic" /\ last.op = "free"
    /\ \E l \in LiveAllocations(allocator) : l.addr = last.arg.addr /\ l.size # last.arg.size

\* the free blocks alloc(size) may choose among, and the best fits among them
Fits(a, size) == {b \in FreeBlocksBySize(a) : b.size >= size}
BestFits(a, size) == {b \in Fits(a, size) : \A c \in Fits(a, size) : b.size <= c.size}

\* what is left of block b when its first size bytes are taken
Remainder(b, size) ==
    IF b.size = size THEN {} ELSE {Allocation(start(b) + size, b.size - size)}

\* the outcome o of alloc(size) in a took the allocation from the front of b
\* and left the rest of b in its place in both free views
CarvedFrom(a, size, o, b) ==
    /\ o.ret = Allocation(start(b), size)
    /\ FreeBlocks(o.a) = (FreeBlocks(a) \ {b}) \cup Remainder(b, size)
    /\ FreeBlocksBySize(o.a) = (FreeBlocksBySize(a) \ {b}) \cup Remainder(b, size)
    /\ Len(o.a.free_by_addr) = Len(a.free_by_addr) - 1 + Cardinality(Remainder(b, size))
    /\ Len(o.a.free_by_size) = Len(a.free_by_size) - 1 + Cardinality(Remainder(b, size))

C23_LowestAddressOnTies ==
    status = "ok" =>
        \A size \in 1..MaxAllocSize, pick \in Picks :
            alloc(allocator, size, pick).ok =>
                \A b \in BestFits(allocator, size) :
                    start(alloc(allocator, size, pick).ret) <= start(b)

\* the sequence of blocks s holds no block twice
NoDuplicates(s) == \A i \in Indices(s), j \in Indices(s) : i # j => At(s, i) # At(s, j)

\* C24: after any sequence of successful alloc and free calls free_by_addr
\* and free_by_size hold the same set of blocks, neither holds a block twice,
\* and free_by_addr is strictly ascending by address.
C24_FreeViewsAgree ==
    status = "ok" =>
        /\ FreeBlocks(allocator) = FreeBlocksBySize(allocator)
        /\ NoDuplicates(allocator.free_by_addr)
        /\ NoDuplicates(allocator.free_by_size)
        /\ \A i \in Indices(allocator.free_by_addr), j \in Indices(allocator.free_by_addr) :
              i < j => At(allocator.free_by_addr, i).addr < At(allocator.free_by_addr, j).addr

\* a free left at least two free blocks that the two views hold in different
\* orders
C24_Witness ==
    /\ status = "ok" /\ last.op = "free"
    /\ Len(allocator.free_by_addr) >= 2
    /\ allocator.free_by_addr # allocator.free_by_size

\* block b comes before block c in the order by size, then address
BySizeThenAddr(b, c) == b.size < c.size \/ (b.size = c.size /\ b.addr < c.addr)

\* C25: after any sequence of successful alloc and free calls free_by_size is
\* sorted by ascending size and, within a run of equal sizes, by ascending
\* address.
C25_FreeBySizeOrder ==
    status = "ok" =>
        \A i \in Indices(allocator.free_by_size), j \in Indices(allocator.free_by_size) :
            i < j => BySizeThenAddr(At(allocator.free_by_size, i), At(allocator.free_by_size, j))

(***************************************************************************)
(* free: merging with one neighbour, freeing with no neighbour             *)
(***************************************************************************)
\* the free blocks of a that end where x starts, and that start where x ends
PrevOf(a, x) == {b \in FreeBlocks(a) : end(b) = start(x)}
NextOf(a, x) == {b \in FreeBlocks(a) : start(b) = end(x)}

\* the outcome o of a free in a replaced the free block old by the block
\* merged in both free views and changed no other free block
ReplacedBy(a, o, old, merged) ==
    /\ o.ok
    /\ FreeBlocks(o.a) = (FreeBlocks(a) \ {old}) \cup {merged}
    /\ FreeBlocksBySize(o.a) = (FreeBlocksBySize(a) \ {old}) \cup {merged}
    /\ Len(o.a.free_by_addr) = Len(a.free_by_addr)
    /\ Len(o.a.free_by_size) = Len(a.free_by_size)

\* C26: free(x) with exactly one abutting free neighbour merges with it in
\* both free views: a next block is replaced by (x.addr, x.size + next.size),
\* a previous block by (prev.addr, prev.size + x.size), wherever x lies
\* relative to the other free blocks, and no block for x remains.
C26_FreeMergesOneNeighbour ==
    status = "ok" =>
        \A x \in LiveAllocations(allocator), pick \in Picks :
            /\ \A next \in NextOf(allocator, x) :
                  PrevOf(allocator, x) = {} =>
                      ReplacedBy(allocator, free(allocator, x, pick), next,
                                 Allocation(start(x), x.size + next.size))
            /\ \A prev \in PrevOf(allocator, x) :
                  NextOf(allocator, x) = {} =>
                      ReplacedBy(allocator, free(allocator, x, pick), prev,
                                 Allocation(start(prev), prev.size + x.size))

\* the addresses of the sequence of blocks s ascend strictly
AscendingAddrs(s) == \A i \in Indices(s), j \in Indices(s) : i < j => At(s, i).addr < At(s, j).addr

\* the outcome o of free(x) in a took x out of allocations and added it once
\* to both free views, leaving everything else as it was
FreedAlone(a, o, x) ==
    /\ o.ok
    /\ LiveAllocations(o.a) = LiveAllocations(a) \ {x}
    /\ Len(o.a.allocations) = Len(a.allocations) - 1
    /\ FreeBlocks(o.a) = FreeBlocks(a) \cup {x}
    /\ FreeBlocksBySize(o.a) = FreeBlocksBySize(a) \cup {x}
    /\ Len(o.a.free_by_addr) = Len(a.free_by_addr) + 1
    /\ Len(o.a.free_by_size) = Len(a.free_by_size) + 1
    /\ AscendingAddrs(a.free_by_addr) => AscendingAddrs(o.a.free_by_addr)

\* C27: free(x) of a live allocation that no free block abuts removes x from
\* allocations and adds the block x once to both free views at its sorted
\* position, leaving every other allocation and free block as it was, also
\* when x lies above every free block or no block is free.
C27_FreeWithoutNeighbour ==
    status = "ok" =>
        \A x \in LiveAllocations(allocator), pick \in Picks :
            (PrevOf(allocator, x) = {} /\ NextOf(allocator, x) = {}) =>
                FreedAlone(allocator, free(allocator, x, pick), x)

(***************************************************************************)
(* The reserved address 0, delete_table, inline and out-of-line payloads   *)
(***************************************************************************)
\* sizes the table code asks the allocator for: one byte, an overflow
\* allocation of a short and of a long payload, a table of capacity 1 and 8
ProbeSizes ==
    {1, MAX_INLINE_VALUE_LEN + 2, LongValueLen + 1,
     byte_count_for_capacity(1), byte_count_for_capacity(8)}

\* C28: the first alloc on a fresh arena is placed at address 0, and while
\* that reservation is live no later alloc returns address 0: neither the
\* table allocation nor an overflow allocation is located at address 0.
C28_AddressZeroReserved ==
    /\ calls = 0 => allocator.allocations = <<InitialReservation>>
    /\ status = "ok" =>
          /\ \A i \in Indices(allocator.allocations) :
                At(allocator.allocations, i).addr = 0 <=> i = 0
          /\ \A size \in ProbeSizes, pick \in Picks :
                alloc(allocator, size, pick).ok => alloc(allocator, size, pick).ret.addr # 0
    /\ TableRuns =>
          /\ table.data.addr # 0
          /\ \A f \in Spilled : OverflowAddr(f) # 0

\* an insert left a table with an out-of-line payload in an arena where an
\* earlier free had left a hole below the highest free block
C28_Witness ==
    /\ TableRuns /\ last.op = "insert"
    /\ Spilled # {}
    /\ Len(allocator.free_by_addr) >= 2

\* delete_table left m: it returned and only the initial reservation is live
OnlyReservationLive(m) ==
    /\ m.st = "ok"
    /\ LiveAllocations(m.allocator) = {InitialReservation}
    /\ Len(m.allocator.allocations) = 1

\* C29: delete_table on a table in any reachable state frees the overflow
\* allocations of every occupied slot and the table allocation: afterwards
\* the live allocations are those that were live before the table was created.
C29_DeleteTableFreesAll ==
    TableRuns =>
        \A pick \in Picks : OnlyReservationLive(delete_table(Machine(pick), table.data))

\* the entry e of machine m stores the bytes of kind K in the slot: the
\* out-of-line bit is 0 and the inline-length field is the length
StoredInline(m, e, K, bytes) ==
    /\ is_entry_data_inline(e, K)
    /\ inline_entry_data_len(e, K) = Len(bytes)

\* the entry e of machine m stores the bytes of kind K out of line: the bit
\* is 1, the inline-length field 0, and the inline region holds the address
\* of a live allocation of Len(bytes) + 1 bytes whose first byte is the length
StoredOutOfLine(m, e, K, bytes) ==
    /\ ~is_entry_data_inline(e, K)
    /\ inline_entry_data_len(e, K) = 0
    /\ Allocation(read_u32(m, e.addr + K.offset_within_entry), Len(bytes) + 1)
           \in LiveAllocations(m.allocator)
    /\ get_bytes(m, read_u32(m, e.addr + K.offset_within_entry), 1) = <<Len(bytes)>>

\* the form the boundary rule asks for, and the bytes read back
StoredByRule(m, e, K, bytes) ==
    /\ Len(bytes) <= K.max_inline_size => StoredInline(m, e, K, bytes)
    /\ Len(bytes) >= K.max_inline_size + 1 => StoredOutOfLine(m, e, K, bytes)
    /\ entry_data(m, e, K) = Fine(bytes)
    /\ read_u64(m, e.addr) = e.metadata

\* payloads of the lengths 0, K and K + 1
Payload(n) == [i \in 1..n |-> 10 + i]
BoundaryPayloads ==
    {Payload(n) : n \in {0, MAX_INLINE_KEY_LEN, MAX_INLINE_KEY_LEN + 1}}

\* m is what set_entry_data(bytes) left for kind K: if it returned, the entry
\* it returned stores the bytes by the rule
WrittenByRule(m, K, bytes) == m.st = "ok" => StoredByRule(m, m.ret, K, bytes)

\* C30: a key or value of length <= the inline maximum is stored in the slot
\* with out-of-line bit 0 and inline length = its length; a longer one is
\* stored in an overflow allocation of length + 1 bytes whose first byte is
\* the length, with out-of-line bit 1, inline length 0 and the allocation's
\* address in the inline region; reading the field back gives the bytes
\* written.  Stated of every set_entry_data call that returns, on the key and
\* on the value of every occupied slot of every reachable table.
C30_InlineOrSpill ==
    TableRuns =>
        \A f \in Fields, bytes \in BoundaryPayloads, pick \in Picks :
            WrittenByRule(set_entry_data(Machine(pick), SlotEntry(f[1]).v, f[2], bytes),
                          f[2], bytes)

\* an insert left a slot whose key has exactly MAX_INLINE_KEY_LEN bytes and
\* is stored inline and whose value has MAX_INLINE_VALUE_LEN + 1 bytes and is
\* stored out of line, next to a slot whose key is stored out of line
C30_Witness ==
    /\ TableRuns /\ last.op = "insert"
    /\ \E i \in Occupied, j \in Occupied :
          /\ entry_data(Now, SlotEntry(i).v, DataKindKey) = Fine(<<4, 4, 4, 4>>)
          /\ is_entry_data_inline(SlotEntry(i).v, DataKindKey)
          /\ entry_data(Now, SlotEntry(i).v, DataKindValue) = Fine(<<8, 8, 8, 8, 8>>)
          /\ ~is_entry_data_inline(SlotEntry(i).v, DataKindValue)
          /\ entry_data(Now, SlotEntry(j).v, DataKindKey) = Fine(<<5, 5, 5, 5, 5>>)
          /\ ~is_entry_data_inline(SlotEntry(j).v, DataKindKey)

(***************************************************************************)
(* The length limit of keys and values                                     *)
(***************************************************************************)
TooLong(bytes) == Len(bytes) > MaxPayloadLen

\* the machine of a call on the table as it is now, by a program that has the
\* key Oversize as well
OversizeMachine(pick) ==
    [Machine(pick) EXCEPT !.hashes = setup.hashes @@ (Oversize :> {0, 1})]

\* calls of insert with a key or a value of MaxPayloadLen + 1 bytes
OversizeCalls ==
    ({Oversize} \X {<<7>>}) \cup ((DOMAIN setup.hashes) \X {Oversize})

OversizeIsFatal ==
    \A c \in OversizeCalls, pick \in Picks :
        insert(OversizeMachine(pick), c[1], c[2]).st = "panic"

\* insert returned and find gives the value back
Accepted(m, key, value) ==
    m.st = "ok" /\ find(m, m.data, key).ret = Some(value)

LengthsUpToLimitAccepted ==
    \A key \in DOMAIN setup.hashes, value \in setup.values, pick \in Picks :
        ~TooLong(key) /\ ~TooLong(value)
            => Accepted(insert(Machine(pick), key, value), key, value)

\* C31: insert with a key or a value of more than 255 bytes is fatal, and
\* insert takes every key and value of at most 255 bytes (stated where the
\* arena has room for them).
C31_PayloadLengthLimit ==
    status = "ok" /\ table.alive
        => /\ OversizeIsFatal
           /\ setup \in Large => LengthsUpToLimitAccepted

C31_Witness ==
    /\ setup \in Large /\ status = "ok" /\ table.alive
    /\ ReferenceGet(reference, Largest) = Some(Largest)

(***************************************************************************)
(* A table as with_capacity returns it                                     *)
(***************************************************************************)
\* m.ret is a table of the capacity asked for, with len 0 and every slot
\* empty, that passes sanity_check_table
FreshTable(m, capacity) ==
    /\ get_bytes(m, m.ret.addr + MAGIC_HEADER_OFFSET, 4) = MAGIC_HEADER
    /\ RawTable_len(m, m.ret) = 0
    /\ RawTable_capacity(m, m.ret) = capacity
    /\ m.ret.size = HEADER_SIZE + ENTRY_SIZE * entry_array_len(m, m.ret)
    /\ \A i \in 0..(entry_array_len(m, m.ret) - 1) :
           /\ get_entry(m, m.ret, i).ok
           /\ is_empty(get_entry(m, m.ret, i).v)
    /\ sanity_check_table(m, m.ret).st = "ok"

CreatedFresh(m, capacity) == m.st = "ok" => FreshTable(m, capacity)

\* C32: in every reachable state of the arena, a table that new or
\* with_capacity(c) returns has len 0, capacity c, only empty slots and
\* passes the self-check, also when its memory was in use before.
C32_NewTableIsEmpty ==
    status = "ok" /\ ~table.alive
        => \A capacity \in 0..(MaxCapacity + 1), pick \in Picks :
               CreatedFresh(alloc_with_capacity(Machine(pick), capacity), capacity)

\* a second table is created where the first one, which held a key, was
C32_Witness ==
    /\ status = "ok" /\ table.alive /\ calls >= 4
    /\ last.op = "with_capacity"
    /\ FreshTable([Now EXCEPT !.ret = table.data], RawTable_capacity(Now, table.data))

(***************************************************************************)
(* The bits of the entry metadata                                          *)
(***************************************************************************)
\* the number that bits lo..hi of the word w hold
RECURSIVE BitField(_, _, _)
BitField(w, hi, lo) ==
    IF hi < lo THEN 0
    ELSE (IF hi \in w THEN Pow2(hi - lo) ELSE 0) + BitField(w, hi - 1, lo)

\* where the two inline lengths are in the word
LengthBits(key_hi, key_lo, value_hi, value_lo) ==
    [key_hi |-> key_hi, key_lo |-> key_lo, value_hi |-> value_hi, value_lo |-> value_lo]

\* the length field of a payload: its length when it is stored inline
InlineLen(bytes, max_inline_size) ==
    IF Len(bytes) <= max_inline_size THEN Len(bytes) ELSE 0

\* the word describes an occupied slot of a key with this hash and a value
Describes(metadata, L, hash, key, value) ==
    /\ 63 \in metadata
    /\ 61 \in metadata <=> Len(key) > MAX_INLINE_KEY_LEN
    /\ 60 \in metadata <=> Len(value) > MAX_INLINE_VALUE_LEN
    /\ BitField(metadata, L.key_hi, L.key_lo) = InlineLen(key, MAX_INLINE_KEY_LEN)
    /\ BitField(metadata, L.value_hi, L.value_lo) = InlineLen(value, MAX_INLINE_VALUE_LEN)
    /\ metadata \cap (0..45) = hash \cap (0..45)

\* what insert does to an empty slot: ret is the entry it leaves
WriteSlot(m, entry, key, value) ==
    set_entry_data_of_ret(
        set_entry_data_of_ret(init_non_empty(m, entry, hash_for(m, key)), DataKindKey, key),
        DataKindValue, value)

EmptySlots == {i \in 0..(TableSize - 1) : SlotEntry(i).ok /\ is_empty(SlotEntry(i).v)}

\* every slot that insert can write in this state is described under L
WrittenAs(L) ==
    \A i \in EmptySlots, key \in DOMAIN setup.hashes, value \in setup.values :
        LET m == WriteSlot(Now, SlotEntry(i).v, key, value)
        IN  m.st = "ok" => Describes(m.ret.metadata, L, hash_for(Now, key), key, value)

\* C33 as stated: bit 63 is the occupied flag, bits 61 and 60 the key and
\* value out-of-line flags, bits 59..53 the inline key length, bits 52..46
\* the inline value length and bits 45..0 the low bits of the key hash.
C33_MetadataLayout ==
    status = "ok" /\ table.alive => WrittenAs(LengthBits(59, 53, 52, 46))

\* C33 amended: as above, with the inline key length in bits 52..46 and the
\* inline value length in bits 59..53.
C33_MetadataLayoutOfCode ==
    status = "ok" /\ table.alive => WrittenAs(LengthBits(52, 46, 59, 53))

\* a slot is written with an inline key of 2 bytes and an inline value of 1
C33_Witness ==
    /\ status = "ok" /\ table.alive
    /\ <<2, 2>> \in DOMAIN setup.hashes /\ <<7>> \in setup.values
    /\ \E i \in EmptySlots :
           LET m == WriteSlot(Now, SlotEntry(i).v, <<2, 2>>, <<7>>)
           IN  /\ m.st = "ok"
               /\ BitField(m.ret.metadata, 52, 46) = 2
               /\ BitField(m.ret.metadata, 59, 53) = 1

(***************************************************************************)
(* The checks that end insert                                              *)
(***************************************************************************)
ReleaseBuild(pick) == [Machine(pick) EXCEPT !.debug = FALSE]
DebugBuild(pick) == [Machine(pick) EXCEPT !.debug = TRUE]

\* some slot of the table of m is occupied and holds the stored hash of the
\* key, the key and the value
SomeSlotHolds(m, key, value) ==
    \E i \in 0..(entry_array_len(m, m.data) - 1) :
        LET g == get_entry(m, m.data, i)
        IN  /\ g.ok /\ ~is_empty(g.v)
            /\ hash_equal(g.v, hash_for(m, key))
            /\ entry_data(m, g.v, DataKindKey) = [ok |-> TRUE, v |-> key]
            /\ entry_data(m, g.v, DataKindValue) = [ok |-> TRUE, v |-> value]

\* the call returned in a build without debug_assertions: then it returns
\* with them as well, and the pair is in the table
InsertedOrFatal(key, value, pick) ==
    LET m == insert(ReleaseBuild(pick), key, value)
    IN  m.st = "ok" =>
            /\ insert(DebugBuild(pick), key, value).st = "ok"
            /\ SomeSlotHolds(m, key, value)
            /\ find(m, m.data, key).ret = Some(value)

\* C34: whenever insert(k, v) returns, for tables of every capacity, what the
\* assertions at the end of insert state is true: a slot is occupied and holds
\* the stored hash of k, k and v, and find(k) returns v; a probe that finds
\* neither an empty slot nor the key never returns silently.
C34_InsertPostconditions ==
    status = "ok" /\ table.alive =>
        \A key \in DOMAIN setup.hashes, value \in setup.values, pick \in Picks :
            ~TooLong(key) /\ ~TooLong(value) => InsertedOrFatal(key, value, pick)

(***************************************************************************)
(* resize                                                                  *)
(***************************************************************************)
\* the bytes of the occupied slots of the table of m
SlotBytes(m, i) == get_bytes(m, entry_addr(m.data, i), ENTRY_SIZE)
OccupiedIn(m) ==
    {i \in 0..(entry_array_len(m, m.data) - 1) :
        get_entry(m, m.data, i).ok /\ ~is_empty(get_entry(m, m.data, i).v)}

\* the capacity insert asks resize for
NextCapacity(m) ==
    IF RawTable_capacity(m, m.data) = 0 THEN 8
    ELSE (RawTable_capacity(m, m.data) * 3) \div 2

\* insert calls resize on the table of m
MustGrow(m) == RawTable_len(m, m.data) >= RawTable_capacity(m, m.data)

\* r is what resize(new_capacity) made of the table of m
Resized(m, r, new_capacity) ==
    /\ end(m.data) <= start(r.data) \/ end(r.data) <= start(m.data)
    /\ r.data.size = byte_count_for_capacity(new_capacity)
    /\ RawTable_capacity(r, r.data) = new_capacity
    /\ RawTable_len(r, r.data) = RawTable_len(m, m.data)
    /\ Cardinality(OccupiedIn(r)) = Cardinality(OccupiedIn(m))
    /\ {SlotBytes(r, i) : i \in OccupiedIn(r)} = {SlotBytes(m, i) : i \in OccupiedIn(m)}
    /\ \E i \in Indices(r.allocator.allocations) : At(r.allocator.allocations, i) = r.data
    /\ \A i \in Indices(r.allocator.allocations) : At(r.allocator.allocations, i) # m.data
    /\ Visited(iter(r, r.data)) = Visited(iter(m, m.data))

ResizedByRule(m) ==
    LET r == resize(m, NextCapacity(m))
    IN  r.st = "ok" => Resized(m, r, NextCapacity(m))

\* C35: resize allocates the new table apart from the old one, copies every
\* occupied slot of the old table byte for byte into one slot of the new
\* table, writes the old len into the new header and frees the old table;
\* from capacity 0 the capacity becomes 8, and iter visits the same pairs
\* after the growth as before.
C35_ResizeMovesEverySlot ==
    status = "ok" /\ table.alive =>
        \A pick \in Picks :
            /\ MustGrow(Machine(pick)) => ResizedByRule(Machine(pick))
            /\ RawTable_capacity(Now, table.data) = 0 =>
                   \A key \in DOMAIN setup.hashes, value \in setup.values :
                       GrewTo(insert(Machine(pick), key, value), 8)

\* a full table with a key stored out of line is resized
C35_Witness ==
    /\ status = "ok" /\ table.alive /\ MustGrow(Now)
    /\ Spilled # {} /\ Cardinality(Occupied) >= 2
    /\ resize(Now, NextCapacity(Now)).st = "ok"

(***************************************************************************)
(* remove of a key that is not in the table                                *)
(***************************************************************************)
\* m is the machine a call left that wrote nothing and freed nothing
LeftUntouched(m) ==
    /\ m.storage = storage
    /\ m.allocator = allocator
    /\ m.data = table.data

\* the keys of the occupied slots of the live table
KeysInTable == {entry_data(Now, SlotEntry(i).v, DataKindKey).v : i \in Occupied}

RemovedNothing(m) == m.st = "ok" /\ m.ret = FALSE /\ LeftUntouched(m)

\* C36: remove(k) of a key that is not in the table returns false and leaves
\* every byte of the arena (slots, len, capacity) and the allocator's
\* allocations and free views as they were.
C36_RemoveAbsentChangesNothing ==
    status = "ok" /\ table.alive =>
        \A key \in (DOMAIN setup.hashes) \ KeysInTable, pick \in Picks :
            RemovedNothing(remove_entry(Machine(pick), table.data, key))

\* the same of the calls that return
C36_IfItReturns ==
    status = "ok" /\ table.alive =>
        \A key \in (DOMAIN setup.hashes) \ KeysInTable, pick \in Picks :
            LET m == remove_entry(Machine(pick), table.data, key)
            IN  m.st = "ok" => RemovedNothing(m)

(***************************************************************************)
(* The ideal slot and the stored hash                                      *)
(***************************************************************************)
\* C37: for every hash and every number of entry slots, the ideal slot
\* computed from the hash kept in an entry's metadata (its low 46 bits) is
\* the ideal slot computed from the key's 64-bit hash.
C37_StoredHashKeepsSlot == last.op = "recomputed" => last.recomputed = last.slot

\* a hash with bits that the metadata drops, in a table of 3 slots
C37_Witness ==
    /\ last.op = "recomputed" /\ last.table_size = 3
    /\ {46, 63} \subseteq last.hash /\ 63 \in last.entry.metadata
    /\ 46 \notin last.entry.metadata

(***************************************************************************)
(* Borrows and Memory::free                                                *)
(***************************************************************************)
\* the borrow r shares a byte with a free block of a
PointsIntoFreeBlock(a, r) ==
    \E b \in FreeBlocks(a) : RangeBytes(r) \cap Bytes(b) # {}

\* the range of r lies in one live allocation of a
BorrowedFromLive(a, r) ==
    \E b \in LiveAllocations(a) : start(b) <= r.start /\ r.end <= end(b)

\* C38: in every reachable state each live borrow lies inside one live
\* allocation and none points into a free block: a free of an allocation
\* with a registered borrow on its range is fatal.
C38_BorrowsStayInLiveAllocations ==
    status = "ok" =>
        \A r \in LiveBorrows(allocator) :
            /\ BorrowedFromLive(allocator, r)
            /\ ~PointsIntoFreeBlock(allocator, r)

(***************************************************************************)
(* The record table                                                        *)
(***************************************************************************)
\* get_record(id) returns record
Reads(m, id, record) ==
    get_record(m, id).st = "ok" /\ get_record(m, id).ret = record

\* the table m left by RecordTableMut::alloc(records) holds records[i] under i
HoldsAll(m, records) ==
    /\ m.st = "ok"
    /\ \A i \in 1..Len(records) : Reads(m, i, records[i])

\* m1 was left by alloc_record: set_record on the new id succeeds and
\* get_record returns what it stored
FreshIdRoundTrip(m1) ==
    m1.st = "ok" =>
        \A record \in Records :
            /\ set_record(m1, m1.ret, record).st = "ok"
            /\ Reads(set_record(m1, m1.ret, record), m1.ret, record)

\* C39: get_record(id) returns the record last stored under id, for the
\* records passed to RecordTableMut::alloc (stored under ids 1..n) and for
\* alloc_record followed by set_record(id, r), growth of the table
\* included; set_record on a freshly allocated id succeeds.
C39_RecordRoundTrip ==
    /\ status = "ok" /\ ~table.alive =>
            \A records \in RecordLists, pick \in Picks :
                HoldsAll(RecordTableMut_alloc(Machine(pick), records), records)
    /\ status = "ok" /\ table.alive =>
            /\ \A id \in DOMAIN reference : Reads(Now, id, reference[id])
            /\ \A pick \in Picks : FreshIdRoundTrip(alloc_record(Machine(pick)))

\* the bytes of a record once they are in the table: get_record reads back
\* what Record::write_at wrote at the address of the id
StoredIsRead(m1) ==
    m1.st = "ok" =>
        \A record \in Records :
            Reads(Record_write_at(m1, record, record_addr(m1, m1.ret)), m1.ret, record)

C39_IfStored ==
    status = "ok" /\ table.alive =>
        \A pick \in Picks : StoredIsRead(alloc_record(Machine(pick)))

\* delete_record(id) on m2 returns record and adds exactly id to the free
\* ids of m2
DeletesTo(m2, id, record) ==
    /\ delete_record(m2, id).st = "ok"
    /\ delete_record(m2, id).ret = record
    /\ iter_free(delete_record(m2, id)).st = "ok"
    /\ all_free(delete_record(m2, id)) = all_free(m2) \cup {id}
    /\ id \notin all_free(m2)

\* m1 was left by alloc_record: the new id is set, then deleted
SetThenDelete(m1) ==
    m1.st = "ok" =>
        \A record \in Records :
            DeletesTo(set_record(m1, m1.ret, record), m1.ret, record)

\* C40: delete_record(id) of an allocated and set record returns the
\* record stored under id and makes the set of free ids (the chain that
\* starts at first_free) the previous set plus exactly id, after any
\* sequence of allocations.
C40_DeleteFreesExactlyId ==
    status = "ok" /\ table.alive =>
        \A pick \in Picks : SetThenDelete(alloc_record(Machine(pick)))

\* the same with the record written by Record::write_at at the address of
\* the id, without the assert of set_record
StoredThenDelete(m1) ==
    m1.st = "ok" =>
        \A record \in Records :
            DeletesTo(Record_write_at(m1, record, record_addr(m1, m1.ret)), m1.ret, record)

C40_IfStored ==
    status = "ok" /\ table.alive =>
        \A pick \in Picks : StoredThenDelete(alloc_record(Machine(pick)))
====
